---------------------------- MODULE Spec2Model ----------------------------
(***************************************************************************)
(* VEDS route optimizer (src/rust-routing): the transport graph, the       *)
(* bounded k-shortest-paths search, path materialization, the constraint   *)
(* engine, Pareto ranking, weighted scoring, the gRPC conversions and the  *)
(* reader/writer discipline around the shared graph.                       *)
(*                                                                         *)
(* Number representation (TLC has integers only):                          *)
(*   - f64 hours (transit_hours, time_hours, total_time_hours) are counted *)
(*     in half hours, so that `x as i64` (truncation to whole hours) is    *)
(*     x \div 2 and is not the identity;                                    *)
(*   - DateTime<Utc> values are half-hour ticks; Duration::hours(n) is 2n; *)
(*   - Decimal dollars are integers; cost_per_kg is held in 1/1000 dollar  *)
(*     per kg and weights are multiples of 1000 kg, so base + per_kg * w   *)
(*     is exact;                                                           *)
(*   - carbon_kg is an integer number of kg (distance * tonnes * factor);  *)
(*   - labor scores (0.0 - 1.0) are counted in 1/1200: 1.0 is 1200, and    *)
(*     the mean over 1, 2, 3, 4 or 6 segments is exact;                    *)
(*   - objective weights are tenths; a weighted score is a fraction        *)
(*     [num, den].                                                         *)
(* Float rounding error is outside the model: arithmetic is exact.         *)
(***************************************************************************)
EXTENDS Integers, Sequences, FiniteSets, TLC

----------------------------------------------------------------------------
(* Generic helpers *)

Min2(a, b) == IF a <= b THEN a ELSE b

Max2(a, b) == IF a >= b THEN a ELSE b

RECURSIVE SumSeq(_)
SumSeq(s) == IF s = <<>> THEN 0 ELSE s[1] + SumSeq(Tail(s))

RECURSIVE MaxSeq(_, _)
MaxSeq(s, floor) == IF s = <<>> THEN floor ELSE MaxSeq(Tail(s), Max2(floor, s[1]))

\* `x as i64` for a non-negative f64 number of hours held in half hours
AsI64Hours(x) == x \div 2

\* chrono::Duration::hours(n) in half-hour ticks
DurationHours(n) == 2 * n

\* an f64 literal number of whole hours (24.0, 1.0) in half hours
F64Hours(h) == 2 * h

\* chrono::Duration::num_hours: whole hours, truncated toward zero
NumHours(d) == IF d >= 0 THEN d \div 2 ELSE 0 - ((0 - d) \div 2)

----------------------------------------------------------------------------
(* graph/mod.rs *)

TransportMode == {"Maritime", "Rail", "Road", "Air"}

\* TransportMode::mode_transfer_hours, in whole hours
mode_transfer_hours(from, to) ==
    CASE from = "Maritime" /\ to = "Rail" -> 24
      [] from = "Maritime" /\ to = "Road" -> 12
      [] from = "Rail" /\ to = "Road" -> 6
      [] from = "Rail" /\ to = "Maritime" -> 24
      [] from = "Road" /\ to = "Rail" -> 6
      [] from = "Road" /\ to = "Maritime" -> 12
      [] from = "Air" \/ to = "Air" -> 4
      [] OTHER -> 2

\* TransportEdge::calculate_cost (cost_per_kg in 1/1000 dollar per kg)
calculate_cost(edge, weight_kg) ==
    edge.base_cost_usd + (edge.cost_per_kg * weight_kg) \div 1000

\* TransportEdge::calculate_carbon
calculate_carbon(edge, weight_kg) ==
    edge.distance_km * (weight_kg \div 1000) * edge.carbon_per_tonne_km

\* TransportEdge::labor_score, in 1/1200
labor_score(edge, country_min_wage) ==
    LET wage_score == IF country_min_wage > 0
                      THEN Min2((600 * edge.carrier_wage_cents) \div country_min_wage, 1200)
                      ELSE 600
        safety_score == 240 * edge.carrier_safety_rating
        union_score == IF edge.carrier_unionized THEN 1200 ELSE 600
    IN  (4 * wage_score + 4 * safety_score + 2 * union_score) \div 10

\* TransportGraph::new at time `now`
NewGraph(now) ==
    [nodes |-> <<>>, edges |-> <<>>, node_index |-> <<>>,
     loaded_at |-> now, load_time_ms |-> 0]

\* the code -> NodeIndex map is a sequence of <<code, idx>> bindings, one per code
RECURSIVE IndexGet(_, _)
IndexGet(node_index, code) ==
    IF node_index = <<>> THEN 0
    ELSE IF node_index[1][1] = code THEN node_index[1][2]
    ELSE IndexGet(Tail(node_index), code)

IndexInsert(node_index, code, idx) ==
    IF IndexGet(node_index, code) = 0
    THEN Append(node_index, <<code, idx>>)
    ELSE [i \in DOMAIN node_index |->
            IF node_index[i][1] = code THEN <<code, idx>> ELSE node_index[i]]

\* TransportGraph::get_node_index: 0 is None, node handles count from 1
get_node_index(graph, code) == IndexGet(graph.node_index, code)

\* TransportGraph::add_node
add_node(graph, node) ==
    LET idx == Len(graph.nodes) + 1
    IN  [graph EXCEPT !.nodes = Append(@, node),
                      !.node_index = IndexInsert(@, node.code, idx)]

\* add_edge without the lookup test: the edge is added whatever the codes
AddEdgeUnchecked(graph, from_code, to_code, edge) ==
    [graph EXCEPT !.edges = Append(@, [source |-> get_node_index(graph, from_code),
                                       target |-> get_node_index(graph, to_code),
                                       weight |-> edge])]

\* TransportGraph::add_edge: the graph after the call, and the returned flag
add_edge_ok(graph, from_code, to_code) ==
    get_node_index(graph, from_code) # 0 /\ get_node_index(graph, to_code) # 0

add_edge(graph, from_code, to_code, edge) ==
    IF add_edge_ok(graph, from_code, to_code)
    THEN [graph EXCEPT !.edges = Append(@, [source |-> get_node_index(graph, from_code),
                                            target |-> get_node_index(graph, to_code),
                                            weight |-> edge])]
    ELSE graph

node_count(graph) == Len(graph.nodes)

edge_count(graph) == Len(graph.edges)

\* petgraph edges(node): the outgoing edges of a node, last added first
RECURSIVE EdgesFrom(_, _)
EdgesFrom(edges, node) ==
    IF edges = <<>> THEN <<>>
    ELSE LET rest == EdgesFrom(Tail(edges), node)
         IN  IF edges[1].source = node THEN Append(rest, edges[1]) ELSE rest

----------------------------------------------------------------------------
(* optimizer/mod.rs: the search *)

\* Option<T>: <<>> is None, <<v>> is Some(v)
None == <<>>

Some(v) == <<v>>

\* the ordering without the reversal: the heap would hand out the dearest state
StateLeNotReversed(a, b) == a.cost <= b.cost

\* impl Ord for SearchState: a <= b in the heap's order (reversed on cost)
StateLe(a, b) == b.cost <= a.cost

\* BinaryHeap::sift_up(start, pos) on a 0-based array held as a sequence
RECURSIVE SiftUp(_, _, _, _)
SiftUp(data, start, pos, hole) ==
    IF pos > start
    THEN LET parent == (pos - 1) \div 2
         IN  IF StateLe(hole, data[parent + 1])
             THEN [data EXCEPT ![pos + 1] = hole]
             ELSE SiftUp([data EXCEPT ![pos + 1] = data[parent + 1]], start, parent, hole)
    ELSE [data EXCEPT ![pos + 1] = hole]

\* BinaryHeap::push
HeapPush(heap, item) ==
    LET old_len == Len(heap)
    IN  SiftUp(Append(heap, item), 0, old_len, item)

\* BinaryHeap::sift_down_to_bottom(0): the hole goes down to a leaf along the
\* greater children, then the element is sifted back up
RECURSIVE SiftDownToBottom(_, _, _, _)
SiftDownToBottom(data, pos, child, hole) ==
    LET end == Len(data)
    IN  IF child <= Max2(end - 2, 0) /\ child + 1 < end
        THEN LET c == IF StateLe(data[child + 1], data[child + 2]) THEN child + 1 ELSE child
             IN  SiftDownToBottom([data EXCEPT ![pos + 1] = data[c + 1]], c, 2 * c + 1, hole)
        ELSE IF child = end - 1
             THEN SiftUp([data EXCEPT ![pos + 1] = data[child + 1]], 0, child, hole)
             ELSE SiftUp(data, 0, pos, hole)

\* BinaryHeap::pop on a non-empty heap: <<the popped item, the heap left>>
HeapPop(heap) ==
    LET last == heap[Len(heap)]
        rest == SubSeq(heap, 1, Len(heap) - 1)
    IN  IF rest = <<>>
        THEN <<last, rest>>
        ELSE <<heap[1], SiftDownToBottom([rest EXCEPT ![1] = last], 0, 1, last)>>

\* pruning predicates that leave out the sanction check and the carrier exclusions
EdgePrunedNoCarrierChecks(edge, request) ==
    \/ ~edge.active
    \/ (request.allowed_modes # {} /\ edge.mode \notin request.allowed_modes)

\* pruning that reads an empty allowed_modes as "no mode allowed"
EdgePrunedEmptyAllowsNone(edge, request) ==
    \/ ~edge.active
    \/ edge.mode \notin request.allowed_modes
    \/ edge.carrier_code \in request.excluded_carriers
    \/ edge.carrier_sanctioned

\* the pruning predicates of the neighbour loop: TRUE when the edge is skipped
EdgePruned(edge, request) ==
    \/ ~edge.active
    \/ (request.allowed_modes # {} /\ edge.mode \notin request.allowed_modes)
    \/ edge.carrier_code \in request.excluded_carriers
    \/ edge.carrier_sanctioned

\* the child state built for one outgoing edge (lines 339-369)
ChildState(state, edge_ref, request) ==
    LET edge == edge_ref.weight
        new_cost == state.cost + calculate_cost(edge, request.weight_kg)
        new_time == state.time_hours + edge.transit_hours
        new_carbon == state.carbon_kg + calculate_carbon(edge, request.weight_kg)
        transfer_time == IF state.path # <<>>
                         THEN F64Hours(mode_transfer_hours(state.path[Len(state.path)].edge.mode,
                                                           edge.mode))
                         ELSE 0
        total_time == new_time + transfer_time
        arrival == state.current_time + DurationHours(AsI64Hours(total_time))
    IN  [node |-> edge_ref.target,
         path |-> Append(state.path, [node |-> edge_ref.target, edge |-> edge]),
         cost |-> new_cost,
         time_hours |-> total_time,
         carbon_kg |-> new_carbon,
         current_time |-> arrival]

\* the neighbour loop: every outgoing edge in turn, pushing the children kept
RECURSIVE ExploreNeighbors(_, _, _, _)
ExploreNeighbors(heap, state, edge_refs, request) ==
    IF edge_refs = <<>> THEN heap
    ELSE LET edge_ref == edge_refs[1]
             child == ChildState(state, edge_ref, request)
         IN  IF EdgePruned(edge_ref.weight, request) \/ child.current_time > request.deliver_by
             THEN ExploreNeighbors(heap, state, Tail(edge_refs), request)
             ELSE ExploreNeighbors(HeapPush(heap, child), state, Tail(edge_refs), request)

\* a depth test that lets a path of max_segments edges grow by one more
DepthLimitOffByOne(state, request) == Len(state.path) > request.max_segments

\* `state.path.len() >= request.max_segments` (line 309)
DepthLimitReached(state, request) == Len(state.path) >= request.max_segments

\* the while loop of find_k_shortest_paths. `emitted` keeps the search state of
\* each emitted path, `pops` counts the iterations and `expansions` the times
\* the neighbour loop was entered at each node.
RECURSIVE SearchLoop(_, _, _, _, _)
SearchLoop(st, graph, destination, request, k) ==
    IF st.heap = <<>> THEN st
    ELSE LET popped == HeapPop(st.heap)
             state == popped[1]
             heap == popped[2]
             count == st.visited_counts[state.node] + 1
             counted == [st EXCEPT !.heap = heap,
                                   !.visited_counts[state.node] = count,
                                   !.pops = @ + 1]
         IN  IF count > k
             THEN SearchLoop(counted, graph, destination, request, k)
             ELSE IF state.node = destination /\ state.path # <<>>
             THEN LET found == [counted EXCEPT !.paths = Append(@, state.path),
                                               !.emitted = Append(@, state)]
                  IN  IF Len(found.paths) >= k
                      THEN found
                      ELSE SearchLoop(found, graph, destination, request, k)
             ELSE IF DepthLimitReached(state, request)
             THEN SearchLoop(counted, graph, destination, request, k)
             ELSE SearchLoop([counted EXCEPT !.heap =
                                 ExploreNeighbors(heap, state,
                                                  EdgesFrom(graph.edges, state.node), request),
                                             !.expansions[state.node] = @ + 1],
                             graph, destination, request, k)

\* the search from its first state to the end of the loop
SearchRun(graph, origin, destination, request, k) ==
    SearchLoop([heap |-> <<[node |-> origin, path |-> <<>>, cost |-> 0, time_hours |-> 0,
                            carbon_kg |-> 0, current_time |-> request.pickup_after]>>,
                paths |-> <<>>,
                emitted |-> <<>>,
                visited_counts |-> [n \in 1..Len(graph.nodes) |-> 0],
                expansions |-> [n \in 1..Len(graph.nodes) |-> 0],
                pops |-> 0],
               graph, destination, request, k)

\* Optimizer::find_k_shortest_paths
find_k_shortest_paths(graph, origin, destination, request, k) ==
    SearchRun(graph, origin, destination, request, k).paths

----------------------------------------------------------------------------
(* optimizer/mod.rs: materialization *)

\* CandidateRoute::new with a generated route id
NewCandidateRoute(route_id) ==
    [route_id |-> route_id,
     segments |-> <<>>,
     total_cost_usd |-> 0,
     total_time_hours |-> 0,
     total_carbon_kg |-> 0,
     total_distance_km |-> 0,
     labor_score |-> 0,
     pareto_rank |-> 0,
     pareto_optimal |-> FALSE,
     weighted_score |-> [num |-> 0, den |-> 1],
     constraint_results |-> <<>>]

\* totals that count each segment's time from the departure of the first segment
\* to its own arrival
TotalsWithWaiting(route) ==
    LET segs == route.segments
        n == Len(segs)
    IN  [route EXCEPT
            !.total_cost_usd = SumSeq([i \in 1..n |-> segs[i].cost_usd]),
            !.total_time_hours = IF n = 0 THEN 0
                                 ELSE segs[n].arrival_time - segs[1].departure_time,
            !.total_carbon_kg = SumSeq([i \in 1..n |-> segs[i].carbon_kg]),
            !.total_distance_km = SumSeq([i \in 1..n |-> segs[i].distance_km]),
            !.labor_score = IF n # 0
                            THEN SumSeq([i \in 1..n |-> segs[i].labor_score]) \div n
                            ELSE @]

\* CandidateRoute::recalculate_totals
recalculate_totals(route) ==
    LET segs == route.segments
        n == Len(segs)
    IN  [route EXCEPT
            !.total_cost_usd = SumSeq([i \in 1..n |-> segs[i].cost_usd]),
            !.total_time_hours = SumSeq([i \in 1..n |-> segs[i].transit_hours]),
            !.total_carbon_kg = SumSeq([i \in 1..n |-> segs[i].carbon_kg]),
            !.total_distance_km = SumSeq([i \in 1..n |-> segs[i].distance_km]),
            !.labor_score = IF n # 0
                            THEN SumSeq([i \in 1..n |-> segs[i].labor_score]) \div n
                            ELSE @]

\* the departure time of path position seq (0-based) given the time and mode
\* left by the position before it (lines 390-397)
DepartureTime(current_time, prev_mode, edge) ==
    IF prev_mode # None /\ prev_mode[1] # edge.mode
    THEN current_time + DurationHours(mode_transfer_hours(prev_mode[1], edge.mode))
    ELSE current_time

\* the from_node of path position seq (0-based) (lines 403-407)
SegmentFromNode(path, seq, request) ==
    IF seq = 0 THEN request.origin_code ELSE path[seq].edge.carrier_code

\* the body of the for loop of path_to_route, from position seq (0-based) on
RECURSIVE BuildSegments(_, _, _, _, _, _, _)
BuildSegments(graph, path, request, route_id, seq, current_time, prev_mode) ==
    IF seq >= Len(path) THEN <<>>
    ELSE LET edge == path[seq + 1].edge
             target_node == graph.nodes[path[seq + 1].node]
             departure == DepartureTime(current_time, prev_mode, edge)
             arrival == departure + DurationHours(AsI64Hours(edge.transit_hours))
             segment == [segment_id |-> <<route_id, seq>>,
                         sequence |-> seq,
                         from_node |-> SegmentFromNode(path, seq, request),
                         to_node |-> target_node.code,
                         mode |-> edge.mode,
                         carrier_code |-> edge.carrier_code,
                         distance_km |-> edge.distance_km,
                         cost_usd |-> calculate_cost(edge, request.weight_kg),
                         transit_hours |-> edge.transit_hours,
                         carbon_kg |-> calculate_carbon(edge, request.weight_kg),
                         carrier_wage_cents |-> edge.carrier_wage_cents,
                         labor_score |-> labor_score(edge, 1500),
                         departure_time |-> departure,
                         arrival_time |-> arrival]
         IN  <<segment>> \o BuildSegments(graph, path, request, route_id, seq + 1,
                                          arrival, Some(edge.mode))

\* Optimizer::path_to_route
path_to_route(graph, path, request, route_id) ==
    recalculate_totals([NewCandidateRoute(route_id) EXCEPT
        !.segments = BuildSegments(graph, path, request, route_id, 0,
                                   request.pickup_after, None)])

----------------------------------------------------------------------------
(* constraints/mod.rs *)

\* ConstraintCache::default
EmptyCache == [min_wages |-> <<>>, sanctioned_carriers |-> {}]

\* the lookup without the default: an absent key gives a minimum of 0
MinWageNoDefault(cache, key) == IndexGet(cache.min_wages, key)

\* min_wages.get(key).copied().unwrap_or(800) over a sequence of <<key, wage>>
MinWageFor(cache, key) ==
    LET hit == IndexGet(cache.min_wages, key)
    IN  IF \E i \in DOMAIN cache.min_wages : cache.min_wages[i][1] = key THEN hit ELSE 800

\* the sanction check looking at the first segment only
SanctionFirstSegmentOnly(cache, route) ==
    LET passed == \/ route.segments = <<>>
                  \/ route.segments[1].carrier_code \notin cache.sanctioned_carriers
    IN  [constraint_id |-> "sanction-check", constraint_type |-> "SANCTION",
         passed |-> passed, is_hard |-> TRUE,
         score |-> [num |-> IF passed THEN 1 ELSE 0, den |-> 1]]

\* the `violations` vector of check_sanction_constraint (lines 111-117)
SanctionViolations(cache, route) ==
    SelectSeq([i \in 1..Len(route.segments) |-> route.segments[i].carrier_code],
              LAMBDA carrier : carrier \in cache.sanctioned_carriers)

\* ConstraintEngine::check_sanction_constraint (HARD)
check_sanction_constraint(cache, route) ==
    LET passed == SanctionViolations(cache, route) = <<>>
    IN  [constraint_id |-> "sanction-check", constraint_type |-> "SANCTION",
         passed |-> passed, is_hard |-> TRUE,
         score |-> [num |-> IF passed THEN 1 ELSE 0, den |-> 1]]

\* ConstraintEngine::check_wage_constraint
check_wage_constraint(cache, route) ==
    LET passed == \A i \in DOMAIN route.segments :
                      ~(route.segments[i].carrier_wage_cents
                          < MinWageFor(cache, route.segments[i].to_node))
    IN  [constraint_id |-> "wage-minimum", constraint_type |-> "WAGE",
         passed |-> passed, is_hard |-> TRUE,
         score |-> [num |-> IF passed THEN 1 ELSE 0, den |-> 1]]

\* ConstraintEngine::check_time_constraint
check_time_constraint(route, request) ==
    LET max_hours == F64Hours(NumHours(request.deliver_by - request.pickup_after))
        passed == route.total_time_hours <= max_hours
    IN  [constraint_id |-> "time-window", constraint_type |-> "TIME",
         passed |-> passed, is_hard |-> TRUE,
         score |-> [num |-> IF passed THEN 1 ELSE 0, den |-> 1]]

\* ConstraintEngine::check_cost_constraint
check_cost_constraint(route, max_cost) ==
    [constraint_id |-> "cost-budget", constraint_type |-> "COST",
     passed |-> route.total_cost_usd <= max_cost, is_hard |-> FALSE,
     score |-> IF max_cost > 0
               THEN [num |-> Max2(max_cost - route.total_cost_usd, 0), den |-> max_cost]
               ELSE [num |-> 0, den |-> 1]]

\* ConstraintEngine::check_carbon_constraint
check_carbon_constraint(route, max_carbon) ==
    [constraint_id |-> "carbon-budget", constraint_type |-> "CARBON",
     passed |-> route.total_carbon_kg <= max_carbon, is_hard |-> FALSE,
     score |-> IF max_carbon > 0
               THEN [num |-> Max2(max_carbon - route.total_carbon_kg, 0), den |-> max_carbon]
               ELSE [num |-> 0, den |-> 1]]

\* ConstraintEngine::check_labor_constraint
check_labor_constraint(route, min_score) ==
    [constraint_id |-> "labor-minimum", constraint_type |-> "WAGE",
     passed |-> route.labor_score >= min_score, is_hard |-> FALSE,
     score |-> [num |-> route.labor_score, den |-> 1200]]

\* ConstraintEngine::evaluate_route
evaluate_route(cache, route, request) ==
    <<check_sanction_constraint(cache, route),
      check_wage_constraint(cache, route),
      check_time_constraint(route, request)>>
    \o (IF request.max_cost_usd # None
        THEN <<check_cost_constraint(route, request.max_cost_usd[1])>> ELSE <<>>)
    \o (IF request.max_carbon_kg # None
        THEN <<check_carbon_constraint(route, request.max_carbon_kg[1])>> ELSE <<>>)
    \o (IF request.min_labor_score # None
        THEN <<check_labor_constraint(route, request.min_labor_score[1])>> ELSE <<>>)

----------------------------------------------------------------------------
(* optimizer/mod.rs: ranking, scoring and optimize *)

\* dominance without the strict part: no worse on any of the four objectives
NoWorseOnAll(a, b) ==
    /\ a.total_cost_usd <= b.total_cost_usd
    /\ a.total_time_hours <= b.total_time_hours
    /\ a.total_carbon_kg <= b.total_carbon_kg
    /\ a.labor_score >= b.labor_score

\* Optimizer::dominates
dominates(a, b) ==
    LET cost_better == a.total_cost_usd <= b.total_cost_usd
        time_better == a.total_time_hours <= b.total_time_hours
        carbon_better == a.total_carbon_kg <= b.total_carbon_kg
        labor_better == a.labor_score >= b.labor_score
        at_least_one_strictly == \/ a.total_cost_usd < b.total_cost_usd
                                 \/ a.total_time_hours < b.total_time_hours
                                 \/ a.total_carbon_kg < b.total_carbon_kg
                                 \/ a.labor_score > b.labor_score
    IN  cost_better /\ time_better /\ carbon_better /\ labor_better /\ at_least_one_strictly

\* the iteration orders a HashSet<usize> over 0..n can have (as 1..n here)
HashOrders(n) ==
    {o \in [1..n -> 1..n] : \A i, j \in 1..n : i # j => o[i] # o[j]}

\* a domination count with the two routes swapped
DominatedCountSwapped(routes) ==
    [j \in 1..Len(routes) |->
        Cardinality({i \in 1..Len(routes) : i # j /\ dominates(routes[j], routes[i])})]

\* the first double loop of calculate_pareto_ranks (lines 437-443)
DominatedCount(routes) ==
    [j \in 1..Len(routes) |->
        Cardinality({i \in 1..Len(routes) : i # j /\ dominates(routes[i], routes[j])})]

\* a frontier of one: only the first member of `remaining` with count 0
NonDominatedFirstOnly(order, remaining, dominated_count) ==
    SubSeq(SelectSeq(order, LAMBDA i : i \in remaining /\ dominated_count[i] = 0), 1, 1)

\* the members of `remaining` with count 0, in the set's iteration order
NonDominated(order, remaining, dominated_count) ==
    SelectSeq(order, LAMBDA i : i \in remaining /\ dominated_count[i] = 0)

\* a for loop over non_dominated that marks every route it ranks pareto_optimal
RECURSIVE AssignFrontierAllOptimal(_, _, _, _, _)
AssignFrontierAllOptimal(st, routes, non_dominated, pos, current_rank) ==
    IF pos > Len(non_dominated) THEN st
    ELSE LET i == non_dominated[pos]
             remaining == st.remaining \ {i}
         IN  AssignFrontierAllOptimal(
                 [ranks |-> [st.ranks EXCEPT ![i] = current_rank],
                  optimal |-> [st.optimal EXCEPT ![i] = TRUE],
                  remaining |-> remaining,
                  dominated_count |->
                      [j \in DOMAIN st.dominated_count |->
                          IF j \in remaining /\ dominates(routes[i], routes[j])
                          THEN Max2(st.dominated_count[j] - 1, 0)
                          ELSE st.dominated_count[j]],
                  fallback |-> st.fallback],
                 routes, non_dominated, pos + 1, current_rank)

\* the for loop over non_dominated (lines 466-477), from position pos on
RECURSIVE AssignFrontier(_, _, _, _, _)
AssignFrontier(st, routes, non_dominated, pos, current_rank) ==
    IF pos > Len(non_dominated) THEN st
    ELSE LET i == non_dominated[pos]
             remaining == st.remaining \ {i}
         IN  AssignFrontier(
                 [ranks |-> [st.ranks EXCEPT ![i] = current_rank],
                  optimal |-> [st.optimal EXCEPT ![i] = (current_rank = 1)],
                  remaining |-> remaining,
                  dominated_count |->
                      [j \in DOMAIN st.dominated_count |->
                          IF j \in remaining /\ dominates(routes[i], routes[j])
                          THEN Max2(st.dominated_count[j] - 1, 0)
                          ELSE st.dominated_count[j]],
                  fallback |-> st.fallback],
                 routes, non_dominated, pos + 1, current_rank)

\* a ranking that tests the count of each route while it walks the set, so that a
\* route freed earlier in the same walk joins the frontier being built
RECURSIVE WalkOnce(_, _, _, _, _)
WalkOnce(st, routes, order, pos, current_rank) ==
    IF pos > Len(order) THEN st
    ELSE LET i == order[pos]
         IN  IF i \in st.remaining /\ st.dominated_count[i] = 0
             THEN WalkOnce(AssignFrontier(st, routes, <<i>>, 1, current_rank),
                           routes, order, pos + 1, current_rank)
             ELSE WalkOnce(st, routes, order, pos + 1, current_rank)

RECURSIVE RankLoopWalking(_, _, _, _)
RankLoopWalking(st, routes, order, current_rank) ==
    IF st.remaining = {} THEN st
    ELSE RankLoopWalking(WalkOnce(st, routes, order, 1, current_rank),
                         routes, order, current_rank + 1)

\* the while loop of calculate_pareto_ranks (lines 449-480)
RECURSIVE RankLoop(_, _, _, _)
RankLoop(st, routes, order, current_rank) ==
    IF st.remaining = {} THEN st
    ELSE LET non_dominated == NonDominated(order, st.remaining, st.dominated_count)
         IN  IF non_dominated = <<>>
             THEN [st EXCEPT !.ranks = [i \in DOMAIN st.ranks |->
                                           IF i \in st.remaining THEN current_rank
                                           ELSE st.ranks[i]],
                             !.fallback = TRUE]
             ELSE RankLoop(AssignFrontier(st, routes, non_dominated, 1, current_rank),
                           routes, order, current_rank + 1)

\* Optimizer::calculate_pareto_ranks, `order` being the iteration order of the
\* HashSet `remaining`; `fallback` tells whether the empty-frontier branch ran
ParetoState(routes, order) ==
    RankLoop([ranks |-> [i \in 1..Len(routes) |-> 0],
              optimal |-> [i \in 1..Len(routes) |-> routes[i].pareto_optimal],
              remaining |-> 1..Len(routes),
              dominated_count |-> DominatedCount(routes),
              fallback |-> FALSE],
             routes, order, 1)

calculate_pareto_ranks(routes, order) ==
    LET st == ParetoState(routes, order)
    IN  [i \in 1..Len(routes) |->
            [routes[i] EXCEPT !.pareto_rank = st.ranks[i],
                              !.pareto_optimal = st.optimal[i]]]

\* Optimizer::calculate_weighted_score: the fraction num / den
calculate_weighted_score(route, request, all_routes) ==
    LET n == Len(all_routes)
        max_cost == IF n = 0 THEN 1
                    ELSE MaxSeq([i \in 1..n |-> all_routes[i].total_cost_usd],
                                all_routes[1].total_cost_usd)
        max_time == MaxSeq([i \in 1..n |-> all_routes[i].total_time_hours], F64Hours(1))
        max_carbon == MaxSeq([i \in 1..n |-> all_routes[i].total_carbon_kg], 1)
        cost_den == IF max_cost > 0 THEN max_cost ELSE 1
        cost_num == IF max_cost > 0 THEN route.total_cost_usd ELSE 0
        labor_norm == 1200 - route.labor_score
    IN  [num |-> request.cost_weight * cost_num * max_time * max_carbon * 1200
                 + request.time_weight * route.total_time_hours * cost_den * max_carbon * 1200
                 + request.carbon_weight * route.total_carbon_kg * cost_den * max_time * 1200
                 + request.labor_weight * labor_norm * cost_den * max_time * max_carbon,
         den |-> 10 * cost_den * max_time * max_carbon * 1200]

\* a.weighted_score.partial_cmp(&b.weighted_score) == Less
ScoreLess(a, b) ==
    IF a.den = b.den THEN a.num < b.num ELSE a.num * b.den < b.num * a.den

\* slice::sort_by on the weighted score: a stable sort, by insertion
RECURSIVE InsertByScore(_, _)
InsertByScore(sorted, route) ==
    IF sorted = <<>> THEN <<route>>
    ELSE IF ScoreLess(route.weighted_score, sorted[Len(sorted)].weighted_score)
         THEN Append(InsertByScore(SubSeq(sorted, 1, Len(sorted) - 1), route),
                     sorted[Len(sorted)])
         ELSE Append(sorted, route)

RECURSIVE SortByScore(_)
SortByScore(routes) ==
    IF routes = <<>> THEN <<>>
    ELSE InsertByScore(SortByScore(SubSeq(routes, 1, Len(routes) - 1)), routes[Len(routes)])

\* a retain predicate that lets no failed result through, hard or soft
AllResultsPassed(route) ==
    \A i \in DOMAIN route.constraint_results : route.constraint_results[i].passed

\* the retain of optimize (lines 231-236)
HardPassed(route) ==
    \A i \in DOMAIN route.constraint_results :
        route.constraint_results[i].is_hard => route.constraint_results[i].passed

\* a retain that tests `any` in place of `all`
RetainAnyHardPassed(routes) ==
    SelectSeq(routes, LAMBDA route :
        \E i \in DOMAIN route.constraint_results :
            route.constraint_results[i].is_hard /\ route.constraint_results[i].passed)

RetainAdmissible(routes) == SelectSeq(routes, HardPassed)

\* Vec::truncate
Truncate(routes, n) == SubSeq(routes, 1, Min2(Len(routes), n))

\* optimize's lookup with the destination test left out
SearchPathsOriginOnly(graph, request) ==
    LET origin_idx == get_node_index(graph, request.origin_code)
        dest_idx == get_node_index(graph, request.destination_code)
    IN  IF origin_idx = 0
        THEN [found |-> FALSE, paths |-> <<>>]
        ELSE [found |-> TRUE,
              paths |-> find_k_shortest_paths(graph, origin_idx, dest_idx, request,
                                              request.max_routes * 3)]

\* optimize up to the search (lines 191-209): the node lookups and the paths emitted
SearchPaths(graph, request) ==
    LET origin_idx == get_node_index(graph, request.origin_code)
        dest_idx == get_node_index(graph, request.destination_code)
    IN  IF origin_idx = 0 \/ dest_idx = 0
        THEN [found |-> FALSE, paths |-> <<>>]
        ELSE [found |-> TRUE,
              paths |-> find_k_shortest_paths(graph, origin_idx, dest_idx, request,
                                              request.max_routes * 3)]

\* optimize from the search to the retain (lines 211-236): the routes built from
\* the paths and evaluated, and those kept
EvaluatePaths(graph, cache, request, uuid, search) ==
    LET paths == search.paths
        built == [i \in 1..Len(paths) |->
                     path_to_route(graph, paths[i], request, <<uuid, i>>)]
        evaluated == [i \in 1..Len(paths) |->
                         [built[i] EXCEPT !.constraint_results =
                             evaluate_route(cache, built[i], request)]]
    IN  [found |-> search.found, paths |-> paths, evaluated |-> evaluated,
         admissible |-> RetainAdmissible(evaluated)]

\* optimize up to the retain
OptimizeCandidates(graph, cache, request, uuid) ==
    EvaluatePaths(graph, cache, request, uuid, SearchPaths(graph, request))

\* optimize from the ranking to the scores (lines 238-244)
ScoredRoutes(cand, request, order) ==
    LET ranked == calculate_pareto_ranks(cand.admissible, order)
    IN  [i \in 1..Len(ranked) |->
            [ranked[i] EXCEPT !.weighted_score =
                calculate_weighted_score(ranked[i], request, ranked)]]

\* optimize from the ranking on (lines 238-260)
OptimizeRanked(cand, request, order) ==
    [routes |-> Truncate(SortByScore(ScoredRoutes(cand, request, order)), request.max_routes),
     candidates_evaluated |-> Len(cand.paths)]

\* Optimizer::optimize, with the HashSet iteration order and the uuid source of
\* the call
optimize(graph, cache, request, order, uuid) ==
    OptimizeRanked(OptimizeCandidates(graph, cache, request, uuid), request, order)

----------------------------------------------------------------------------
(* grpc/mod.rs: the conversions between CandidateRoute and the proto Route *)

\* impl Display for TransportMode
ModeToString(mode) ==
    CASE mode = "Maritime" -> "MARITIME"
      [] mode = "Rail" -> "RAIL"
      [] mode = "Road" -> "ROAD"
      [] mode = "Air" -> "AIR"

\* the match on s.mode.to_uppercase() of parse_proto_route (lines 289-295)
ModeFromString(str) ==
    CASE str = "MARITIME" -> "Maritime"
      [] str = "RAIL" -> "Rail"
      [] str = "ROAD" -> "Road"
      [] str = "AIR" -> "Air"
      [] OTHER -> "Road"

\* DateTime::to_rfc3339: the string form of a time
ToRfc3339(t) == <<"rfc3339", t>>

\* DateTime::parse_from_rfc3339(..).unwrap_or_else(|_| Utc::now())
ParseRfc3339Or(str, now) ==
    IF Len(str) = 2 /\ str[1] = "rfc3339" THEN str[2] ELSE now

\* Decimal::to_string().parse::<f64>().unwrap_or(0.0): exact on the whole
\* dollar amounts of this model
DecimalToF64(d) == d

\* Decimal::from_f64_retain(x).unwrap_or(Decimal::ZERO): exact on whole numbers
DecimalFromF64Retain(x) == x

\* route_to_proto
route_to_proto(route) ==
    [route_id |-> route.route_id,
     segments |-> [i \in 1..Len(route.segments) |->
        LET s == route.segments[i]
        IN  [segment_id |-> s.segment_id,
             sequence |-> s.sequence,
             from_node |-> s.from_node,
             to_node |-> s.to_node,
             mode |-> ModeToString(s.mode),
             carrier_code |-> s.carrier_code,
             distance_km |-> s.distance_km,
             cost_usd |-> DecimalToF64(s.cost_usd),
             transit_hours |-> s.transit_hours,
             carbon_kg |-> s.carbon_kg,
             carrier_wage_cents |-> s.carrier_wage_cents,
             departure_time |-> ToRfc3339(s.departure_time),
             arrival_time |-> ToRfc3339(s.arrival_time)]],
     total_cost_usd |-> DecimalToF64(route.total_cost_usd),
     total_time_hours |-> route.total_time_hours,
     total_carbon_kg |-> route.total_carbon_kg,
     total_distance_km |-> route.total_distance_km,
     labor_score |-> route.labor_score,
     pareto_rank |-> route.pareto_rank,
     pareto_optimal |-> route.pareto_optimal,
     weighted_score |-> route.weighted_score,
     constraint_results |-> route.constraint_results]

\* the OptimizeResponse of grpc/mod.rs lines 62-75
OptimizeResponse(res) ==
    [kind |-> "optimize", success |-> TRUE,
     routes |-> [i \in 1..Len(res.routes) |-> route_to_proto(res.routes[i])],
     candidates_evaluated |-> res.candidates_evaluated]

\* the labor_score parse_proto_route gives every segment: 0.8 (line 309)
ParsedSegmentLabor(proto_segment) == 960

\* parse_proto_route, `now` being Utc::now()
parse_proto_route(proto, now) ==
    recalculate_totals(
        [route_id |-> proto.route_id,
         segments |-> [i \in 1..Len(proto.segments) |->
            LET s == proto.segments[i]
            IN  [segment_id |-> s.segment_id,
                 sequence |-> s.sequence,
                 from_node |-> s.from_node,
                 to_node |-> s.to_node,
                 mode |-> ModeFromString(s.mode),
                 carrier_code |-> s.carrier_code,
                 distance_km |-> s.distance_km,
                 cost_usd |-> DecimalFromF64Retain(s.cost_usd),
                 transit_hours |-> s.transit_hours,
                 carbon_kg |-> s.carbon_kg,
                 carrier_wage_cents |-> s.carrier_wage_cents,
                 labor_score |-> ParsedSegmentLabor(s),
                 departure_time |-> ParseRfc3339Or(s.departure_time, now),
                 arrival_time |-> ParseRfc3339Or(s.arrival_time, now)]],
         total_cost_usd |-> DecimalFromF64Retain(proto.total_cost_usd),
         total_time_hours |-> proto.total_time_hours,
         total_carbon_kg |-> proto.total_carbon_kg,
         total_distance_km |-> proto.total_distance_km,
         labor_score |-> proto.labor_score,
         pareto_rank |-> proto.pareto_rank,
         pareto_optimal |-> proto.pareto_optimal,
         weighted_score |-> proto.weighted_score,
         constraint_results |-> <<>>])

\* str::to_uppercase on the mode names requests carry
ToUppercase(str) ==
    CASE str = "maritime" -> "MARITIME"
      [] str = "rail" -> "RAIL"
      [] str = "road" -> "ROAD"
      [] str = "air" -> "AIR"
      [] OTHER -> str

\* the filter_map over req.allowed_modes (lines 197-207): unknown names are dropped
ParseAllowedModes(strs) ==
    {ModeFromString(ToUppercase(m)) :
        m \in {n \in strs : ToUppercase(n) \in {"MARITIME", "RAIL", "ROAD", "AIR"}}}

\* parse_optimize_request, `now` being Utc::now(); it has no Err path
parse_optimize_request(req, now) ==
    [origin_code |-> req.origin_port,
     destination_code |-> req.destination_port,
     weight_kg |-> req.weight_kg,
     pickup_after |-> ParseRfc3339Or(req.pickup_after, now),
     deliver_by |-> ParseRfc3339Or(req.deliver_by, now + DurationHours(24 * 30)),
     max_cost_usd |-> IF req.max_cost_usd = None THEN None
                      ELSE Some(DecimalFromF64Retain(req.max_cost_usd[1])),
     max_carbon_kg |-> req.max_carbon_kg,
     min_labor_score |-> req.min_labor_score,
     allowed_modes |-> ParseAllowedModes(req.allowed_modes),
     excluded_carriers |-> req.excluded_carriers,
     max_routes |-> req.max_routes,
     max_segments |-> req.max_segments,
     cost_weight |-> req.cost_weight,
     time_weight |-> req.time_weight,
     carbon_weight |-> req.carbon_weight,
     labor_weight |-> req.labor_weight]

----------------------------------------------------------------------------
(* The inputs of the optimizer specification *)

\* graphs hold at most MaxEdges edges
MaxEdges == 3

\* requests ask for at most MaxRoutes routes of at most MaxSegments segments
MaxRoutes == 2

MaxSegments == 3

Node(code, country) == [code |-> code, country_code |-> country]

NodeList == <<Node("A", "CN"), Node("B", "DE"), Node("C", "NL")>>

Edge(id, mode, carrier, distance, base, per_kg, transit, carbon, wage, safety, union, sanc, act) ==
    [id |-> id, mode |-> mode, carrier_code |-> carrier, distance_km |-> distance,
     base_cost_usd |-> base, cost_per_kg |-> per_kg, transit_hours |-> transit,
     carbon_per_tonne_km |-> carbon, carrier_wage_cents |-> wage,
     carrier_safety_rating |-> safety, carrier_unionized |-> union,
     carrier_sanctioned |-> sanc, active |-> act]

\* the edges a graph source can hold: <<from_code, to_code, edge>>
EdgeCatalog ==
    <<
      <<"A", "C", Edge("ac-road", "Road", "K1", 4, 10, 0, 8, 1, 1500, 3, FALSE, FALSE, TRUE)>>,
      <<"A", "C", Edge("ac-rail", "Rail", "K2", 4, 6, 1, 11, 1, 3000, 4, TRUE, FALSE, TRUE)>>,
      <<"A", "B", Edge("ab-road", "Road", "K1", 1, 2, 0, 2, 1, 1500, 3, FALSE, FALSE, TRUE)>>,
      <<"B", "C", Edge("bc-road", "Road", "K1", 1, 2, 0, 3, 1, 1500, 3, FALSE, FALSE, TRUE)>>,
      <<"B", "C", Edge("bc-rail", "Rail", "K2", 1, 1, 1, 2, 1, 3000, 4, TRUE, FALSE, TRUE)>>,
      <<"A", "C", Edge("ac-air", "Air", "K3", 4, 1, 0, 1, 8, 1500, 3, FALSE, TRUE, TRUE)>>,
      <<"A", "C", Edge("ac-cheap", "Road", "K4", 4, 3, 0, 8, 1, 750, 2, FALSE, FALSE, TRUE)>>,
      <<"A", "C", Edge("ac-closed", "Maritime", "K1", 4, 1, 0, 1, 1, 1500, 3, FALSE, FALSE, FALSE)>>,
      <<"B", "A", Edge("ba-road", "Road", "K1", 1, 0, 0, 1, 1, 1500, 3, FALSE, FALSE, TRUE)>>
    >>

RECURSIVE AddNodes(_, _)
AddNodes(graph, nodes) ==
    IF nodes = <<>> THEN graph ELSE AddNodes(add_node(graph, nodes[1]), Tail(nodes))

RECURSIVE AddEdges(_, _)
AddEdges(graph, entries) ==
    IF entries = <<>> THEN graph
    ELSE AddEdges(add_edge(graph, entries[1][1], entries[1][2], entries[1][3]), Tail(entries))

\* the graph load_graph_from_surrealdb builds from nodes and edge entries
BuildGraph(nodes, entries, now) ==
    [AddEdges(AddNodes(NewGraph(now), nodes), entries) EXCEPT !.loaded_at = now]

RECURSIVE Ascending(_, _)
Ascending(set, from) ==
    IF set = {} THEN <<>>
    ELSE IF from \in set THEN <<from>> \o Ascending(set \ {from}, from + 1)
    ELSE Ascending(set, from + 1)

Reverse(seq) == [i \in 1..Len(seq) |-> seq[Len(seq) + 1 - i]]

\* the edge lists of the graphs: any at most MaxEdges catalog entries, added in
\* catalog order or in the reverse of it
EdgeLists ==
    LET picks == {S \in SUBSET (1..Len(EdgeCatalog)) : Cardinality(S) <= MaxEdges}
        lists == {Ascending(S, 1) : S \in picks}
    IN  {[i \in 1..Len(l) |-> EdgeCatalog[l[i]]] : l \in lists \cup {Reverse(l) : l \in lists}}

\* two parallel edges A -> B and a zero-cost edge back: a cycle the search walks
\* round more often than the visit cap allows
ParallelCycle ==
    <<EdgeCatalog[3],
      <<"A", "B", Edge("ab-rail", "Rail", "K2", 1, 1, 1, 2, 1, 3000, 4, TRUE, FALSE, TRUE)>>,
      EdgeCatalog[9]>>

\* a cheap slow edge A -> B, a free loop at B, a dear fast edge A -> B and a
\* long edge B -> C: only the fast edge leaves time for the last one
SlowCheapFastDear ==
    <<<<"A", "B", Edge("ab-slow", "Road", "K1", 1, 1, 0, 40, 1, 1500, 3, FALSE, FALSE, TRUE)>>,
      <<"B", "B", Edge("bb-loop", "Road", "K1", 1, 0, 0, 0, 1, 1500, 3, FALSE, FALSE, TRUE)>>,
      <<"A", "B", Edge("ab-fast", "Road", "K1", 1, 10, 0, 2, 1, 1500, 3, FALSE, FALSE, TRUE)>>,
      <<"B", "C", Edge("bc-long", "Road", "K1", 1, 1, 0, 120, 1, 1500, 3, FALSE, FALSE, TRUE)>>>>

\* two edges A -> C alike in all but cost_per_kg: under a request of negative
\* weight_kg one costs less than nothing and the other nothing
RebatedParallel ==
    <<<<"A", "C", Edge("ac-perkg", "Road", "K1", 4, 0, 1, 8, 1, 1500, 3, FALSE, FALSE, TRUE)>>,
      <<"A", "C", Edge("ac-free", "Road", "K1", 4, 0, 0, 8, 1, 1500, 3, FALSE, FALSE, TRUE)>>>>

Graphs ==
    {BuildGraph(NodeList, entries, 0) :
        entries \in EdgeLists \cup {ParallelCycle, SlowCheapFastDear, RebatedParallel}}

\* the proto OptimizeRequest of the base case
BaseProtoRequest ==
    [origin_port |-> "A", destination_port |-> "C", weight_kg |-> 1000,
     pickup_after |-> ToRfc3339(0), deliver_by |-> ToRfc3339(200),
     max_cost_usd |-> None, max_carbon_kg |-> None, min_labor_score |-> None,
     allowed_modes |-> {}, excluded_carriers |-> {},
     max_routes |-> MaxRoutes, max_segments |-> MaxSegments,
     cost_weight |-> 4, time_weight |-> 3, carbon_weight |-> 2, labor_weight |-> 1]

\* the proto requests sent
ProtoRequests ==
    {[BaseProtoRequest EXCEPT !.max_routes = r, !.max_segments = s] :
        r \in 0..MaxRoutes, s \in 0..MaxSegments}
    \cup {[BaseProtoRequest EXCEPT !.deliver_by = ToRfc3339(d)] : d \in {7, 8, 10, 16, 21}}
    \cup {[BaseProtoRequest EXCEPT !.allowed_modes = m] :
             m \in {{"ROAD"}, {"rail", "AIR"}, {"BARGE"}}}
    \cup {[BaseProtoRequest EXCEPT !.excluded_carriers = {"K1"}],
          [BaseProtoRequest EXCEPT !.origin_port = "Z"],
          [BaseProtoRequest EXCEPT !.destination_port = "Z"],
          [BaseProtoRequest EXCEPT !.destination_port = "A"],
          [BaseProtoRequest EXCEPT !.weight_kg = 2000],
          [BaseProtoRequest EXCEPT !.weight_kg = 0 - 1000],
          [BaseProtoRequest EXCEPT !.pickup_after = ToRfc3339(10),
                                   !.deliver_by = ToRfc3339(4)],
          [BaseProtoRequest EXCEPT !.pickup_after = <<>>, !.deliver_by = <<"soon">>],
          [BaseProtoRequest EXCEPT !.max_cost_usd = Some(5), !.max_carbon_kg = Some(3),
                                   !.min_labor_score = Some(960)],
          [BaseProtoRequest EXCEPT !.cost_weight = 0, !.time_weight = 0,
                                   !.carbon_weight = 0, !.labor_weight = 0]}

BaseRequest == parse_optimize_request(BaseProtoRequest, 0)

Requests == {parse_optimize_request(req, 0) : req \in ProtoRequests}

\* the constraint caches an optimizer is built with; the gRPC handler's is empty
Caches ==
    {EmptyCache,
     [min_wages |-> <<<<"C", 2000>>>>, sanctioned_carriers |-> {"K2"}]}

\* the <<proto request, cache>> pairs tried: every request on the empty cache, and
\* the base request on every cache
Inputs ==
    {<<req, EmptyCache>> : req \in ProtoRequests} \cup {<<BaseProtoRequest, c>> : c \in Caches}

----------------------------------------------------------------------------
(* State *)

VARIABLES
    proto_request, \* the proto OptimizeRequest received by optimize_routes
    response,   \* the OptimizeResponse of optimize_routes
    graph,      \* the TransportGraph given to Optimizer::optimize
    cache,      \* the ConstraintCache of the optimizer's ConstraintEngine
    request,    \* the OptimizeRequest parse_optimize_request made of proto_request
    pc,         \* the position of the caller
    result,     \* the OptimizeResult of the first call, with the paths emitted
    result2,    \* the OptimizeResult of a second call on the same input
    protos,     \* route_to_proto of the returned routes
    parsed,     \* parse_proto_route of protos
    uuid,       \* the next unused source of Uuid::new_v4
    appGraph,   \* AppState.graph: the TransportGraph inside the RwLock
    lock,       \* the RwLock: its read guards, its write guard and its FIFO of waiters
    clock,      \* Utc::now()
    spc,        \* the position of main, of the reload task and of each gRPC handler
    new_graph,  \* the graph a load is building, per task
    hlocal,     \* the locals of a running optimize_routes, per handler
    resp,       \* the last response of each handler
    loads,      \* reloads begun
    calls,       \* gRPC calls begun
    building,   \* the TransportGraph a caller of add_node / add_edge is building
    last_call   \* the last add_node / add_edge call on it, with what it returned

optVars ==
    <<proto_request, response, graph, cache, request, pc, result, result2, protos, parsed, uuid>>

serveVars == <<appGraph, lock, clock, spc, new_graph, hlocal, resp, loads, calls>>

buildVars == <<building, last_call>>

vars == <<optVars, serveVars, buildVars>>

\* the tasks of the server: main, the task main spawns for the periodic reload,
\* and the tasks running gRPC handlers
Handlers == {"h1", "h2"}

Procs == {"main", "reload_task"} \cup Handlers

NoProc == "none"

NoResponse == [kind |-> "none"]

NoLocals == [request |-> None, snapshot |-> None, search |-> None, candidates |-> None]

\* main up to the creation of AppState (main.rs lines 100-108): the graph is
\* TransportGraph::new(), nothing holds the lock, no task has been spawned
NoCall == [op |-> "none"]

\* no add_node / add_edge call has been made on `building`
NotBuilding ==
    /\ building = NewGraph(0)
    /\ last_call = NoCall

ServerCreated ==
    /\ appGraph = NewGraph(0)
    /\ lock = [readers |-> {}, writer |-> NoProc, queue |-> <<>>]
    /\ clock = 1
    /\ spc = [p \in Procs |-> IF p = "main" THEN "created" ELSE "unspawned"]
    /\ new_graph = [p \in Procs |-> None]
    /\ hlocal = [h \in Handlers |-> NoLocals]
    /\ resp = [h \in Handlers |-> NoResponse]
    /\ loads = 0
    /\ calls = 0

NoResult == [routes |-> <<>>, candidates_evaluated |-> 0]

Init ==
    /\ graph \in Graphs
    /\ \E input \in Inputs :
           /\ proto_request = input[1]
           /\ request = parse_optimize_request(input[1], 0)
           /\ cache = input[2]
    /\ response = NoResponse
    /\ pc = "ready"
    /\ result = NoResult
    /\ result2 = NoResult
    /\ protos = <<>>
    /\ parsed = <<>>
    /\ uuid = 1
    /\ ServerCreated
    /\ NotBuilding

\* a call of Optimizer::optimize: the HashSet of the ranking iterates in any order
Optimize ==
    /\ pc = "ready"
    /\ LET cand == OptimizeCandidates(graph, cache, request, uuid)
       IN  \E order \in HashOrders(Len(cand.admissible)) :
               result' = OptimizeRanked(cand, request, order)
    /\ uuid' = uuid + 1
    /\ pc' = "optimized"
    /\ UNCHANGED <<proto_request, response, graph, cache, request, result2, protos, parsed>>
    /\ UNCHANGED <<serveVars, buildVars>>

\* a second call on the same graph and request
OptimizeAgain ==
    /\ pc = "optimized"
    /\ LET cand == OptimizeCandidates(graph, cache, request, uuid)
       IN  \E order \in HashOrders(Len(cand.admissible)) :
               result2' = OptimizeRanked(cand, request, order)
    /\ uuid' = uuid + 1
    /\ pc' = "again"
    /\ UNCHANGED <<proto_request, response, graph, cache, request, result, protos, parsed>>
    /\ UNCHANGED <<serveVars, buildVars>>

\* the response of optimize_routes (grpc/mod.rs lines 62-75): route_to_proto over
\* the returned routes
RouteToProto ==
    /\ pc = "again"
    /\ response' = OptimizeResponse(result)
    /\ protos' = [i \in 1..Len(result.routes) |-> route_to_proto(result.routes[i])]
    /\ pc' = "serialized"
    /\ UNCHANGED <<proto_request, graph, cache, request, result, result2, parsed, uuid>>
    /\ UNCHANGED <<serveVars, buildVars>>

\* evaluate_constraints: parse_proto_route over the routes sent back
ParseProtoRoute ==
    /\ pc = "serialized"
    /\ parsed' = [i \in 1..Len(protos) |-> parse_proto_route(protos[i], 0)]
    /\ pc' = "parsed"
    /\ UNCHANGED <<proto_request, response, graph, cache, request, result, result2, protos, uuid>>
    /\ UNCHANGED <<serveVars, buildVars>>

Next == Optimize \/ OptimizeAgain \/ RouteToProto \/ ParseProtoRoute

Spec == Init /\ [][Next]_vars

----------------------------------------------------------------------------
(* main.rs, grpc/mod.rs, db/mod.rs: the server around the shared graph *)

\* at most MaxLoads reloads are begun after the initial load
MaxLoads == 2

\* at most MaxCalls gRPC calls are begun
MaxCalls == 2

\* what the graph source can hold: the answers to the node query and to the edge
\* query of one load
Sources ==
    {[nodes |-> NodeList,
      entries |-> <<EdgeCatalog[1], EdgeCatalog[3], EdgeCatalog[5]>>],
     [nodes |-> <<NodeList[1], NodeList[3], NodeList[2]>>,
      entries |-> <<EdgeCatalog[2]>>]}

\* the requests sent to OptimizeRoutes
ServeRequests == {BaseRequest}

\* RwLock::read and RwLock::write up to the await: the task joins the waiters
Enqueue(l, p, kind) == [l EXCEPT !.queue = Append(@, <<p, kind>>)]

\* a lock that hands out read guards whatever is out
ReadAdmittedBesideWriter(l) == l.writer \in Procs \cup {NoProc}

\* a read guard is handed out while no write guard is out
ReadAdmitted(l) == l.writer = NoProc

\* a lock that hands out the write guard while read guards are out
WriteAdmittedBesideReaders(l) == l.writer = NoProc

\* the write guard is handed out while no guard is out
WriteAdmitted(l) == l.writer = NoProc /\ l.readers = {}

\* the first waiter can be given its guard
HeadAdmitted(l, p) ==
    /\ l.queue # <<>>
    /\ l.queue[1][1] = p
    /\ IF l.queue[1][2] = "read" THEN ReadAdmitted(l) ELSE WriteAdmitted(l)

\* the guard is given without waiting: no task waits and the lock admits the kind
AcquiredAtOnce(l, kind) ==
    /\ l.queue = <<>>
    /\ IF kind = "read" THEN ReadAdmitted(l) ELSE WriteAdmitted(l)

\* the first waiter gets its guard
Admit(l) ==
    LET p == l.queue[1][1]
        kind == l.queue[1][2]
    IN  [l EXCEPT !.queue = Tail(@),
                  !.readers = IF kind = "read" THEN @ \cup {p} ELSE @,
                  !.writer = IF kind = "write" THEN p ELSE @]

\* RwLock::read and RwLock::write: the guard at once, or a place among the waiters
Acquire(l, p, kind) ==
    IF AcquiredAtOnce(l, kind) THEN Admit(Enqueue(l, p, kind)) ELSE Enqueue(l, p, kind)

\* a lock whose read guards are never given back
ReleaseKeepsReadView(l, p) == [l EXCEPT !.writer = IF @ = p THEN NoProc ELSE @]

\* a guard is dropped
Release(l, p) ==
    [l EXCEPT !.readers = @ \ {p}, !.writer = IF @ = p THEN NoProc ELSE @]

\* where a task continues once its await of the lock returns
AfterAwait(at) ==
    CASE at = "initial_await" -> "load"
      [] at = "swap_await" -> "swap"
      [] at = "optimize_await" -> "search"
      [] at = "status_await" -> "status"

Awaiting == {"initial_await", "swap_await", "optimize_await", "status_await"}

\* the position after asking for a guard
AwaitOrGo(l, kind, at) == IF AcquiredAtOnce(l, kind) THEN AfterAwait(at) ELSE at

\* a handler's read view is of the graph held when the guard is given
ViewTaken(l, locals) ==
    IF AcquiredAtOnce(l, "read") THEN [locals EXCEPT !.snapshot = Some(appGraph)] ELSE locals

\* graph.read().await or graph.write().await returns to a task that waited: the
\* task holds its guard
Granted(p) ==
    /\ spc[p] \in Awaiting
    /\ HeadAdmitted(lock, p)
    /\ lock' = Admit(lock)
    /\ spc' = [spc EXCEPT ![p] = AfterAwait(spc[p])]
    /\ hlocal' = IF p \in Handlers /\ lock.queue[1][2] = "read"
                 THEN [hlocal EXCEPT ![p].snapshot = Some(appGraph)]
                 ELSE hlocal
    /\ UNCHANGED <<appGraph, clock, new_graph, resp, loads, calls>>
    /\ UNCHANGED <<optVars, buildVars>>

\* load_graph_from_surrealdb up to the end of the node loop (db/mod.rs lines
\* 80-131): connecting, signing in or the node query fails, or the nodes answered
\* are added to a new graph
LoadNodes(p) ==
    /\ spc[p] = "load"
    /\ \/ /\ spc' = [spc EXCEPT ![p] = "load_err"]
          /\ UNCHANGED new_graph
       \/ \E src \in Sources :
              /\ new_graph' = [new_graph EXCEPT
                                  ![p] = Some(AddNodes(NewGraph(clock), src.nodes))]
              /\ spc' = [spc EXCEPT ![p] = "load_edges"]
    /\ UNCHANGED <<appGraph, lock, clock, hlocal, resp, loads, calls>>
    /\ UNCHANGED <<optVars, buildVars>>

\* load_graph_from_surrealdb from the edge query on (db/mod.rs lines 133-174): the
\* query fails, or the edges answered are added and loaded_at is set to now
LoadEdges(p) ==
    /\ spc[p] = "load_edges"
    /\ \/ /\ spc' = [spc EXCEPT ![p] = "load_err"]
          /\ new_graph' = [new_graph EXCEPT ![p] = None]
          /\ UNCHANGED clock
       \/ \E src \in Sources :
              /\ src.nodes = new_graph[p][1].nodes
              /\ new_graph' = [new_graph EXCEPT
                                  ![p] = Some([AddEdges(new_graph[p][1], src.entries)
                                                  EXCEPT !.loaded_at = clock])]
              /\ spc' = [spc EXCEPT ![p] = "load_ok"]
              /\ clock' = clock + 1
    /\ UNCHANGED <<appGraph, lock, hlocal, resp, loads, calls>>
    /\ UNCHANGED <<optVars, buildVars>>

\* main.rs line 112: main asks for the write guard before the initial load
MainWrite ==
    /\ spc["main"] = "created"
    /\ lock' = Acquire(lock, "main", "write")
    /\ spc' = [spc EXCEPT !["main"] = AwaitOrGo(lock, "write", "initial_await")]
    /\ UNCHANGED <<appGraph, clock, new_graph, hlocal, resp, loads, calls>>
    /\ UNCHANGED <<optVars, buildVars>>

\* what main spawns after the initial load: the reload task and the gRPC server
Spawned ==
    [p \in Procs |-> IF p = "main" THEN "serving"
                     ELSE IF p = "reload_task" THEN "tick" ELSE "idle"]

\* main.rs lines 114-121 and 127: the initial load succeeded, the graph is
\* installed and the guard dropped
MainInstall ==
    /\ spc["main"] = "load_ok"
    /\ appGraph' = new_graph["main"][1]
    /\ new_graph' = [new_graph EXCEPT !["main"] = None]
    /\ lock' = Release(lock, "main")
    /\ spc' = Spawned
    /\ UNCHANGED <<clock, hlocal, resp, loads, calls>>
    /\ UNCHANGED <<optVars, buildVars>>

\* main.rs lines 122-125 and 127: the initial load failed, main goes on with the
\* empty graph
MainLoadFailed ==
    /\ spc["main"] = "load_err"
    /\ lock' = Release(lock, "main")
    /\ spc' = Spawned
    /\ UNCHANGED <<appGraph, clock, new_graph, hlocal, resp, loads, calls>>
    /\ UNCHANGED <<optVars, buildVars>>

\* main.rs lines 135-137: interval.tick().await returns and a load begins
BgTick ==
    /\ spc["reload_task"] = "tick"
    /\ loads < MaxLoads
    /\ loads' = loads + 1
    /\ spc' = [spc EXCEPT !["reload_task"] = "load"]
    /\ UNCHANGED <<appGraph, lock, clock, new_graph, hlocal, resp, calls>>
    /\ UNCHANGED <<optVars, buildVars>>

\* main.rs lines 137-138: the load answered Ok, the task asks for the write guard
BgWrite ==
    /\ spc["reload_task"] = "load_ok"
    /\ lock' = Acquire(lock, "reload_task", "write")
    /\ spc' = [spc EXCEPT !["reload_task"] = AwaitOrGo(lock, "write", "swap_await")]
    /\ UNCHANGED <<appGraph, clock, new_graph, hlocal, resp, loads, calls>>
    /\ UNCHANGED <<optVars, buildVars>>

\* main.rs lines 139-141: *graph = new_graph, and the guard is dropped
BgSwap ==
    /\ spc["reload_task"] = "swap"
    /\ appGraph' = new_graph["reload_task"][1]
    /\ new_graph' = [new_graph EXCEPT !["reload_task"] = None]
    /\ lock' = Release(lock, "reload_task")
    /\ spc' = [spc EXCEPT !["reload_task"] = "tick"]
    /\ UNCHANGED <<clock, hlocal, resp, loads, calls>>
    /\ UNCHANGED <<optVars, buildVars>>

\* a reload task that falls back to TransportGraph::new() when the load answers Err
BgLoadFailedInstallsEmpty ==
    /\ spc["reload_task"] = "load_err"
    /\ appGraph' = NewGraph(clock)
    /\ spc' = [spc EXCEPT !["reload_task"] = "tick"]
    /\ UNCHANGED <<lock, clock, new_graph, hlocal, resp, loads, calls>>
    /\ UNCHANGED <<optVars, buildVars>>

\* main.rs line 137: the load answered Err, the `if let Ok` body is skipped
BgLoadFailed ==
    /\ spc["reload_task"] = "load_err"
    /\ spc' = [spc EXCEPT !["reload_task"] = "tick"]
    /\ UNCHANGED <<appGraph, lock, clock, new_graph, hlocal, resp, loads, calls>>
    /\ UNCHANGED <<optVars, buildVars>>

\* ReloadGraph begins: load_graph_from_surrealdb is called (grpc/mod.rs line 156)
HReloadStart(h) ==
    /\ spc[h] = "idle"
    /\ calls < MaxCalls /\ loads < MaxLoads
    /\ calls' = calls + 1
    /\ loads' = loads + 1
    /\ resp' = [resp EXCEPT ![h] = NoResponse]
    /\ hlocal' = [hlocal EXCEPT ![h] = NoLocals]
    /\ spc' = [spc EXCEPT ![h] = "load"]
    /\ UNCHANGED <<appGraph, lock, clock, new_graph>>
    /\ UNCHANGED <<optVars, buildVars>>

\* grpc/mod.rs lines 157-158: the load answered Ok, the handler asks for the
\* write guard
HReloadWrite(h) ==
    /\ h \in Handlers
    /\ spc[h] = "load_ok"
    /\ lock' = Acquire(lock, h, "write")
    /\ spc' = [spc EXCEPT ![h] = AwaitOrGo(lock, "write", "swap_await")]
    /\ UNCHANGED <<appGraph, clock, new_graph, hlocal, resp, loads, calls>>
    /\ UNCHANGED <<optVars, buildVars>>

\* the answer of the Ok arm of reload_graph (lines 161-169)
ReloadSucceeded(g) ==
    [kind |-> "reload", success |-> TRUE,
     message |-> <<"Loaded", node_count(g), edge_count(g)>>]

\* the answer of the Err arm of reload_graph (lines 171-175)
ReloadFailed(e) == [kind |-> "reload", success |-> FALSE, message |-> e]

\* grpc/mod.rs lines 159-169: *graph = new_graph, the answer is built from the
\* graph now held, and the guard is dropped
HReloadSwap(h) ==
    /\ h \in Handlers
    /\ spc[h] = "swap"
    /\ appGraph' = new_graph[h][1]
    /\ new_graph' = [new_graph EXCEPT ![h] = None]
    /\ resp' = [resp EXCEPT ![h] = ReloadSucceeded(appGraph')]
    /\ lock' = Release(lock, h)
    /\ spc' = [spc EXCEPT ![h] = "idle"]
    /\ UNCHANGED <<clock, hlocal, loads, calls>>
    /\ UNCHANGED <<optVars, buildVars>>

\* grpc/mod.rs lines 171-175: the load answered Err
HReloadFailed(h) ==
    /\ h \in Handlers
    /\ spc[h] = "load_err"
    /\ resp' = [resp EXCEPT ![h] = ReloadFailed("load error")]
    /\ spc' = [spc EXCEPT ![h] = "idle"]
    /\ UNCHANGED <<appGraph, lock, clock, new_graph, hlocal, loads, calls>>
    /\ UNCHANGED <<optVars, buildVars>>

\* optimize_routes up to the await of the read guard (grpc/mod.rs lines 36-53)
HOptStart(h, req) ==
    /\ spc[h] = "idle"
    /\ calls < MaxCalls
    /\ calls' = calls + 1
    /\ resp' = [resp EXCEPT ![h] = NoResponse]
    /\ hlocal' = [hlocal EXCEPT
                     ![h] = ViewTaken(lock, [NoLocals EXCEPT !.request = Some(req)])]
    /\ lock' = Acquire(lock, h, "read")
    /\ spc' = [spc EXCEPT ![h] = AwaitOrGo(lock, "read", "optimize_await")]
    /\ UNCHANGED <<appGraph, clock, new_graph, loads>>
    /\ UNCHANGED <<optVars, buildVars>>

\* optimize, lines 191-209, on the graph behind the guard
HOptSearch(h) ==
    /\ spc[h] = "search"
    /\ hlocal' = [hlocal EXCEPT
                     ![h].search = Some(SearchPaths(appGraph, hlocal[h].request[1]))]
    /\ spc' = [spc EXCEPT ![h] = "build"]
    /\ UNCHANGED <<appGraph, lock, clock, new_graph, resp, loads, calls>>
    /\ UNCHANGED <<optVars, buildVars>>

\* optimize, lines 211-236, on the graph behind the guard; the handler's
\* ConstraintEngine::new() has the empty cache (grpc/mod.rs line 56)
HOptBuild(h) ==
    /\ spc[h] = "build"
    /\ hlocal' = [hlocal EXCEPT
                     ![h].candidates =
                         Some(EvaluatePaths(appGraph, EmptyCache, hlocal[h].request[1], h,
                                            hlocal[h].search[1]))]
    /\ spc' = [spc EXCEPT ![h] = "rank"]
    /\ UNCHANGED <<appGraph, lock, clock, new_graph, resp, loads, calls>>
    /\ UNCHANGED <<optVars, buildVars>>

\* optimize, lines 238-260, and grpc/mod.rs lines 62-76: the routes are ranked,
\* the response is built, and the read guard is dropped as the handler returns
HOptRespond(h) ==
    /\ spc[h] = "rank"
    /\ \E order \in HashOrders(Len(hlocal[h].candidates[1].admissible)) :
           resp' = [resp EXCEPT
                       ![h] = OptimizeResponse(OptimizeRanked(hlocal[h].candidates[1],
                                                              hlocal[h].request[1], order))]
    /\ hlocal' = [hlocal EXCEPT ![h].search = None, ![h].candidates = None]
    /\ lock' = Release(lock, h)
    /\ spc' = [spc EXCEPT ![h] = "idle"]
    /\ UNCHANGED <<appGraph, clock, new_graph, loads, calls>>
    /\ UNCHANGED <<optVars, buildVars>>

\* get_graph_status up to the await of the read guard (grpc/mod.rs line 130)
HStatusStart(h) ==
    /\ spc[h] = "idle"
    /\ calls < MaxCalls
    /\ calls' = calls + 1
    /\ resp' = [resp EXCEPT ![h] = NoResponse]
    /\ hlocal' = [hlocal EXCEPT ![h] = ViewTaken(lock, NoLocals)]
    /\ lock' = Acquire(lock, h, "read")
    /\ spc' = [spc EXCEPT ![h] = AwaitOrGo(lock, "read", "status_await")]
    /\ UNCHANGED <<appGraph, clock, new_graph, loads>>
    /\ UNCHANGED <<optVars, buildVars>>

\* grpc/mod.rs lines 132-147: the GraphStatusResponse, and the guard dropped
HStatusRespond(h) ==
    /\ spc[h] = "status"
    /\ resp' = [resp EXCEPT ![h] =
                   [kind |-> "status", node_count |-> node_count(appGraph),
                    edge_count |-> edge_count(appGraph),
                    last_loaded |-> ToRfc3339(appGraph.loaded_at),
                    load_time_ms |-> appGraph.load_time_ms]]
    /\ lock' = Release(lock, h)
    /\ spc' = [spc EXCEPT ![h] = "idle"]
    /\ UNCHANGED <<appGraph, clock, new_graph, hlocal, loads, calls>>
    /\ UNCHANGED <<optVars, buildVars>>

\* the server starts from main's AppState; the optimizer variables are not used
InitServe ==
    /\ proto_request = BaseProtoRequest
    /\ response = NoResponse
    /\ graph = NewGraph(0)
    /\ cache = EmptyCache
    /\ request = BaseRequest
    /\ pc = "ready"
    /\ result = NoResult
    /\ result2 = NoResult
    /\ protos = <<>>
    /\ parsed = <<>>
    /\ uuid = 1
    /\ ServerCreated
    /\ NotBuilding

NextServe ==
    \/ MainWrite
    \/ MainInstall
    \/ MainLoadFailed
    \/ BgTick
    \/ BgWrite
    \/ BgSwap
    \/ BgLoadFailed
    \/ \E p \in Procs : Granted(p)
    \/ \E p \in Procs : LoadNodes(p)
    \/ \E p \in Procs : LoadEdges(p)
    \/ \E h \in Handlers : HReloadStart(h)
    \/ \E h \in Handlers : HReloadWrite(h)
    \/ \E h \in Handlers : HReloadSwap(h)
    \/ \E h \in Handlers : HReloadFailed(h)
    \/ \E h \in Handlers, req \in ServeRequests : HOptStart(h, req)
    \/ \E h \in Handlers : HOptSearch(h)
    \/ \E h \in Handlers : HOptBuild(h)
    \/ \E h \in Handlers : HOptRespond(h)
    \/ \E h \in Handlers : HStatusStart(h)
    \/ \E h \in Handlers : HStatusRespond(h)

SpecServe == InitServe /\ [][NextServe]_vars

\* the server under a fair lock and a runtime that runs every task that can run:
\* a waiter the lock admits is given its guard, and a task whose load answered
\* Ok goes on to the write guard and the swap. A call that holds a read view
\* goes on to its answer and drops the view: the steps of optimize under the
\* view are always enabled and are the only steps that leave their position,
\* so weak fairness of each is that the call is again and again not there.
\* Nothing makes a call begin, a tick fire or a load answer.
FairServe ==
    /\ \A p \in Procs : WF_vars(Granted(p))
    /\ WF_vars(BgWrite) /\ WF_vars(BgSwap)
    /\ \A h \in Handlers :
           /\ WF_vars(HReloadWrite(h)) /\ WF_vars(HReloadSwap(h))
           /\ WF_vars(HStatusRespond(h))
           /\ []<>(spc[h] # "search") /\ []<>(spc[h] # "build") /\ []<>(spc[h] # "rank")

SpecServeFair == InitServe /\ [][NextServe]_vars /\ FairServe

----------------------------------------------------------------------------
(* graph/mod.rs: a caller building a TransportGraph call by call *)

MaxBuildNodes == 2

MaxBuildEdges == 2

\* the nodes added: two codes, one of them twice
BuildNodes ==
    {[code |-> "A", country_code |-> "CN"], [code |-> "B", country_code |-> "DE"],
     [code |-> "A", country_code |-> "US"]}

\* the codes add_edge is called with: "Z" is never added
BuildCodes == {"A", "B", "Z"}

BuildEdges == {EdgeCatalog[1][3], EdgeCatalog[2][3]}

\* graph.add_node(node)
AddNode(node) ==
    /\ node_count(building) < MaxBuildNodes
    /\ building' = add_node(building, node)
    /\ last_call' = [op |-> "add_node", node |-> node]
    /\ UNCHANGED <<optVars, serveVars>>

\* graph.add_edge(from_code, to_code, edge), with the flag it returns
AddEdge(from_code, to_code, edge) ==
    /\ edge_count(building) < MaxBuildEdges
    /\ building' = add_edge(building, from_code, to_code, edge)
    /\ last_call' = [op |-> "add_edge", from_code |-> from_code, to_code |-> to_code,
                     edge |-> edge,
                     returned |-> add_edge_ok(building, from_code, to_code)]
    /\ UNCHANGED <<optVars, serveVars>>

InitBuild ==
    /\ InitServe

NextBuild ==
    \/ \E node \in BuildNodes : AddNode(node)
    \/ \E from_code \in BuildCodes : \E to_code \in BuildCodes :
           \E edge \in BuildEdges : AddEdge(from_code, to_code, edge)

SpecBuild == InitBuild /\ [][NextBuild]_vars

----------------------------------------------------------------------------
(* Properties of Optimizer::optimize, checked under Spec *)

\* the first call has returned
Returned == pc # "ready"

\* optimize has just returned for the request
JustReturned == pc = "optimized"

\* what optimize computed before the retain, for the input of the state
Candidates == OptimizeCandidates(graph, cache, request, 1)

\* the emitted path a returned route was built from: route ids are <<uuid, i>>,
\* i being the position of the path in the list the search returned
PathOf(route) == Candidates.paths[route.route_id[2]]

HardIds == {"sanction-check", "wage-minimum", "time-window"}

\* C1: every route returned by optimize carries the sanction, wage and
\* time-window results, and every result with is_hard = TRUE has passed = TRUE
C1_HardConstraintsPassed ==
    Returned =>
        \A r \in DOMAIN result.routes :
            LET cr == result.routes[r].constraint_results
            IN  /\ \A id \in HardIds :
                      \E i \in DOMAIN cr : cr[i].constraint_id = id /\ cr[i].is_hard
                /\ \A i \in DOMAIN cr : cr[i].is_hard => cr[i].passed

\* a call that returned a route and dropped a candidate with a failed hard result
C1_Witness ==
    /\ Returned
    /\ result.routes # <<>>
    /\ \E i \in DOMAIN Candidates.evaluated :
           \E c \in DOMAIN Candidates.evaluated[i].constraint_results :
               /\ Candidates.evaluated[i].constraint_results[c].is_hard
               /\ ~Candidates.evaluated[i].constraint_results[c].passed

\* C2: no segment of a returned route uses an edge that is inactive, has a
\* sanctioned carrier, has an excluded carrier or, when allowed_modes is not
\* empty, has a mode outside it
C2_NoPrunedEdgeInRoutes ==
    Returned =>
        \A r \in DOMAIN result.routes :
            LET route == result.routes[r]
                path == PathOf(route)
            IN  /\ Len(path) = Len(route.segments)
                /\ \A i \in DOMAIN path :
                      /\ route.segments[i].carrier_code = path[i].edge.carrier_code
                      /\ route.segments[i].mode = path[i].edge.mode
                      /\ path[i].edge.active
                      /\ ~path[i].edge.carrier_sanctioned
                      /\ path[i].edge.carrier_code \notin request.excluded_carriers
                      /\ (request.allowed_modes = {}
                            \/ path[i].edge.mode \in request.allowed_modes)

\* a call that returned a route from a graph where the origin has an outgoing
\* edge that is inactive, one that is sanctioned, and one the request rules out
C2_Witness ==
    /\ Returned
    /\ result.routes # <<>>
    /\ LET out == EdgesFrom(graph.edges, get_node_index(graph, request.origin_code))
       IN  /\ \E i \in DOMAIN out : ~out[i].weight.active
           /\ \E i \in DOMAIN out : out[i].weight.carrier_sanctioned
           /\ \E i \in DOMAIN out :
                  \/ out[i].weight.carrier_code \in request.excluded_carriers
                  \/ (request.allowed_modes # {}
                        /\ out[i].weight.mode \notin request.allowed_modes)

\* A is no worse than B on cost, time, carbon and labor and better on one
Dominates(a, b) ==
    /\ a.total_cost_usd <= b.total_cost_usd
    /\ a.total_time_hours <= b.total_time_hours
    /\ a.total_carbon_kg <= b.total_carbon_kg
    /\ a.labor_score >= b.labor_score
    /\ (a.total_cost_usd < b.total_cost_usd \/ a.total_time_hours < b.total_time_hours
          \/ a.total_carbon_kg < b.total_carbon_kg \/ a.labor_score > b.labor_score)

\* C4: of two returned routes, one that dominates the other has the lower rank
C4_DominatorRanksLower ==
    Returned =>
        \A a, b \in DOMAIN result.routes :
            Dominates(result.routes[a], result.routes[b])
                => result.routes[a].pareto_rank < result.routes[b].pareto_rank

\* a call that returned a route together with one it dominates
C4_Witness ==
    /\ Returned
    /\ \E a, b \in DOMAIN result.routes : Dominates(result.routes[a], result.routes[b])

\* C5: every returned route has pareto_rank >= 1 and is pareto_optimal exactly
\* when its rank is 1; the empty-frontier branch never ranks a route
C5_RankAndOptimalAgree ==
    Returned =>
        /\ \A r \in DOMAIN result.routes :
              /\ result.routes[r].pareto_rank >= 1
              /\ result.routes[r].pareto_optimal <=> (result.routes[r].pareto_rank = 1)
        /\ \A order \in HashOrders(Len(Candidates.admissible)) :
              ~ParetoState(Candidates.admissible, order).fallback

\* a call that returned a route of rank 1 and a route of a higher rank
C5_Witness ==
    /\ Returned
    /\ \E a, b \in DOMAIN result.routes :
           result.routes[a].pareto_rank = 1 /\ result.routes[b].pareto_rank > 1

\* C6: the totals of every returned route are the sums over its segments
C6_TotalsAreSegmentSums ==
    Returned =>
        \A r \in DOMAIN result.routes :
            LET route == result.routes[r]
                segs == route.segments
            IN  /\ route.total_cost_usd = SumSeq([i \in DOMAIN segs |-> segs[i].cost_usd])
                /\ route.total_time_hours
                     = SumSeq([i \in DOMAIN segs |-> segs[i].transit_hours])
                /\ route.total_carbon_kg = SumSeq([i \in DOMAIN segs |-> segs[i].carbon_kg])
                /\ route.total_distance_km
                     = SumSeq([i \in DOMAIN segs |-> segs[i].distance_km])

\* a call that returned a route of several segments with a mode change, and so
\* with waiting time between segments
C6_Witness ==
    /\ Returned
    /\ \E r \in DOMAIN result.routes :
           LET segs == result.routes[r].segments
           IN  /\ Len(segs) >= 2
               /\ segs[1].mode # segs[2].mode
               /\ result.routes[r].total_time_hours > 0

\* C7: between consecutive segments of a returned route, whatever their modes,
\* the time from arrival to the next departure is at least the transfer time of
\* mode_transfer_hours for the two modes
C7_TransferTimeBetweenSegments ==
    Returned =>
        \A r \in DOMAIN result.routes :
            LET segs == result.routes[r].segments
            IN  \A i \in 1..(Len(segs) - 1) :
                    segs[i + 1].departure_time - segs[i].arrival_time
                        >= DurationHours(mode_transfer_hours(segs[i].mode, segs[i + 1].mode))

\* a route without its generated ids
SegmentPayload(s) ==
    [sequence |-> s.sequence, from_node |-> s.from_node, to_node |-> s.to_node,
     mode |-> s.mode, carrier_code |-> s.carrier_code, distance_km |-> s.distance_km,
     cost_usd |-> s.cost_usd, transit_hours |-> s.transit_hours, carbon_kg |-> s.carbon_kg,
     carrier_wage_cents |-> s.carrier_wage_cents, labor_score |-> s.labor_score,
     departure_time |-> s.departure_time, arrival_time |-> s.arrival_time]

RoutePayload(r) ==
    [segments |-> [i \in DOMAIN r.segments |-> SegmentPayload(r.segments[i])],
     total_cost_usd |-> r.total_cost_usd, total_time_hours |-> r.total_time_hours,
     total_carbon_kg |-> r.total_carbon_kg, total_distance_km |-> r.total_distance_km,
     labor_score |-> r.labor_score, pareto_rank |-> r.pareto_rank,
     pareto_optimal |-> r.pareto_optimal, weighted_score |-> r.weighted_score]

ResultPayload(res) ==
    [routes |-> [i \in DOMAIN res.routes |-> RoutePayload(res.routes[i])],
     candidates_evaluated |-> res.candidates_evaluated]

\* C8: two calls of optimize on the same graph and request return the same
\* routes in the same order, ids apart, and the same candidates_evaluated
C8_SameResultTwice ==
    pc \in {"again", "serialized", "parsed"} => ResultPayload(result) = ResultPayload(result2)

\* two calls done on an input that returns a dominated route beside its dominator,
\* with ids that differ between the calls
C8_Witness ==
    /\ pc = "again"
    /\ \E a, b \in DOMAIN result.routes : Dominates(result.routes[a], result.routes[b])
    /\ result.routes[1].route_id # result2.routes[1].route_id

\* C9: parse_proto_route(route_to_proto(r)) is r for every returned route r: the
\* same segments with their labor_score, the same totals, labor_score, rank,
\* pareto_optimal and weighted_score (the amounts of this model are whole, so no
\* rounding is involved)
C9_ProtoRoundTrip ==
    pc = "parsed" =>
        /\ Len(parsed) = Len(result.routes)
        /\ \A i \in DOMAIN parsed : RoutePayload(parsed[i]) = RoutePayload(result.routes[i])

\* the request carries an input error: an origin or destination code the graph
\* does not hold, a negative weight_kg, or deliver_by earlier than pickup_after
InputError ==
    \/ get_node_index(graph, request.origin_code) = 0
    \/ get_node_index(graph, request.destination_code) = 0
    \/ request.weight_kg < 0
    \/ request.deliver_by < request.pickup_after

\* C11: an OptimizeRoutes request with an input error (unknown origin or
\* destination code, negative weight_kg, deliver_by earlier than pickup_after)
\* is answered with success = false.
C11_InputErrorNotSuccess ==
    (response # NoResponse /\ InputError) => response.success = FALSE

\* the request names an origin or destination code the graph does not hold
UnknownEndpoint ==
    \/ get_node_index(graph, request.origin_code) = 0
    \/ get_node_index(graph, request.destination_code) = 0

\* C12: if request.origin_code or request.destination_code is not a code of the
\* graph, optimize returns an empty route list with candidates_evaluated = 0 and
\* does not run the search.
C12_UnknownEndpointEmptyResult ==
    (Returned /\ UnknownEndpoint) =>
        /\ result.routes = <<>>
        /\ result.candidates_evaluated = 0
        /\ ~SearchPaths(graph, request).found

\* optimize has returned for a request whose origin is unknown, on a graph with
\* edges
C12_Witness ==
    /\ Returned
    /\ get_node_index(graph, request.origin_code) = 0
    /\ get_node_index(graph, request.destination_code) # 0
    /\ edge_count(graph) > 0
    /\ result.routes = <<>>

\* route_a and route_b of tests::test_pareto_dominance
TestRoutes ==
    {[NewCandidateRoute(<<0, 1>>) EXCEPT !.total_cost_usd = 100,
                                         !.total_time_hours = F64Hours(10),
                                         !.total_carbon_kg = 50, !.labor_score = 960],
     [NewCandidateRoute(<<0, 2>>) EXCEPT !.total_cost_usd = 150,
                                         !.total_time_hours = F64Hours(15),
                                         !.total_carbon_kg = 60, !.labor_score = 840]}

\* the routes dominates is applied to: those built for the request, and the
\* test's two
ComparedRoutes ==
    {Candidates.evaluated[i] : i \in DOMAIN Candidates.evaluated} \cup TestRoutes

\* C13: Optimizer::dominates is a strict order on routes: dominates(A, B) implies
\* not dominates(B, A), no route dominates itself (and the relation is
\* transitive), and dominates(A, B) holds exactly when A is no worse than B on
\* cost, time, carbon and labor and strictly better on at least one.
C13_DominatesIsStrictOrder ==
    JustReturned =>
        LET compared == ComparedRoutes
        IN  \A a, b \in compared :
                /\ ~dominates(a, a)
                /\ dominates(a, b) => ~dominates(b, a)
                /\ dominates(a, b) <=> Dominates(a, b)
                /\ \A c \in compared : (dominates(a, b) /\ dominates(b, c)) => dominates(a, c)

\* two of the routes built for the request were compared, and one dominates
\* the other
C13_Witness ==
    /\ Returned
    /\ \E i, j \in DOMAIN Candidates.evaluated :
           /\ dominates(Candidates.evaluated[i], Candidates.evaluated[j])
           /\ ~dominates(Candidates.evaluated[j], Candidates.evaluated[i])

\* the carriers of a route's segments
SegmentCarriers(route) == {route.segments[i].carrier_code : i \in DOMAIN route.segments}

\* C14: for every route and constraint cache, the sanction constraint result is
\* hard, and it has passed = true if and only if no segment's carrier_code is a
\* member of the cache's sanctioned_carriers; the result evaluate_route records
\* on a route is that one.
C14_SanctionPassedIffNoSanctionedCarrier ==
    JustReturned =>
        LET evaluated == Candidates.evaluated
        IN  \A i \in DOMAIN evaluated :
                /\ \A c \in Caches :
                       LET res == check_sanction_constraint(c, evaluated[i])
                       IN  /\ res.is_hard
                           /\ res.passed <=>
                                  SegmentCarriers(evaluated[i]) \cap c.sanctioned_carriers = {}
                /\ \E k \in DOMAIN evaluated[i].constraint_results :
                       evaluated[i].constraint_results[k] =
                           check_sanction_constraint(cache, evaluated[i])

\* the request's routes were evaluated against a cache with a sanctioned
\* carrier: one route carries it on its second segment only, another not at all
C14_Witness ==
    /\ Returned
    /\ cache.sanctioned_carriers # {}
    /\ \E i, j \in DOMAIN Candidates.evaluated :
           LET a == Candidates.evaluated[i]
               b == Candidates.evaluated[j]
           IN  /\ Len(a.segments) = 2
               /\ a.segments[1].carrier_code \notin cache.sanctioned_carriers
               /\ a.segments[2].carrier_code \in cache.sanctioned_carriers
               /\ ~check_sanction_constraint(cache, a).passed
               /\ check_sanction_constraint(cache, b).passed

\* the accumulated monetary cost of a path for the request's weight
PathCost(path) ==
    SumSeq([i \in 1..Len(path) |-> calculate_cost(path[i].edge, request.weight_kg)])

\* the path is a chain of edges of the graph from one node handle to another
IsChain(path, from, to) ==
    /\ path # <<>>
    /\ path[Len(path)].node = to
    /\ \A i \in DOMAIN path :
           \E e \in DOMAIN graph.edges :
               /\ graph.edges[e].source = (IF i = 1 THEN from ELSE path[i - 1].node)
               /\ graph.edges[e].target = path[i].node
               /\ graph.edges[e].weight = path[i].edge

\* no edge of the graph costs less than nothing for the request's weight
NonNegativeEdgeCosts ==
    \A e \in DOMAIN graph.edges : calculate_cost(graph.edges[e].weight, request.weight_kg) >= 0

\* C16: find_k_shortest_paths emits paths in non-decreasing order of accumulated
\* monetary cost (given non-negative edge costs); every emitted path is a
\* non-empty edge sequence that starts at the origin and ends at the
\* destination; no two emitted paths are the same edge sequence.
C16_PathsInCostOrder ==
    JustReturned =>
        LET paths == Candidates.paths
            origin == get_node_index(graph, request.origin_code)
            destination == get_node_index(graph, request.destination_code)
        IN  /\ NonNegativeEdgeCosts =>
                   \A i, j \in DOMAIN paths : i < j => PathCost(paths[i]) <= PathCost(paths[j])
            /\ \A i \in DOMAIN paths : IsChain(paths[i], origin, destination)
            /\ \A i, j \in DOMAIN paths : i # j => paths[i] # paths[j]

\* the search emitted several paths, of more than one cost, one of them of more
\* than one edge
C16_Witness ==
    /\ Returned
    /\ NonNegativeEdgeCosts
    /\ Len(Candidates.paths) >= 2
    /\ PathCost(Candidates.paths[1]) < PathCost(Candidates.paths[Len(Candidates.paths)])
    /\ \E i \in DOMAIN Candidates.paths : Len(Candidates.paths[i]) > 1

\* a and b have the same weighted score
ScoreEqual(a, b) ==
    ~ScoreLess(a.weighted_score, b.weighted_score)
    /\ ~ScoreLess(b.weighted_score, a.weighted_score)

\* a comes before b: lower weighted score, then lower pareto_rank, then emitted
\* earlier by the search
ComesBefore(a, b) ==
    \/ ScoreLess(a.weighted_score, b.weighted_score)
    \/ /\ ScoreEqual(a, b)
       /\ \/ a.pareto_rank < b.pareto_rank
          \/ a.pareto_rank = b.pareto_rank /\ a.route_id[2] < b.route_id[2]

\* the admissible routes of the request, ranked and scored
AllScored ==
    LET cand == Candidates
    IN  ScoredRoutes(cand, request, CHOOSE order \in HashOrders(Len(cand.admissible)) : TRUE)

\* C17: the list returned by optimize is in ascending weighted_score order;
\* among routes of equal weighted_score the one of lower pareto_rank comes
\* first, and among routes equal on both the one emitted earlier by the search
\* comes first; the list holds at most request.max_routes routes, and they are
\* the first max_routes of that ordering.
C17_SortedByScoreThenRank ==
    Returned =>
        LET all == AllScored
            returned_ids == {result.routes[i].route_id : i \in DOMAIN result.routes}
        IN  /\ \A i, j \in DOMAIN result.routes :
                   i < j => ComesBefore(result.routes[i], result.routes[j])
            /\ Len(result.routes) = Min2(Len(all), request.max_routes)
            /\ \A i \in DOMAIN result.routes : \A k \in DOMAIN all :
                   all[k].route_id \notin returned_ids => ComesBefore(result.routes[i], all[k])

\* the route passes the three hard checks
PassesHardChecks(route) ==
    /\ check_sanction_constraint(cache, route).passed
    /\ check_wage_constraint(cache, route).passed
    /\ check_time_constraint(route, request).passed

\* the route carries a result of this id, soft, with this verdict
RecordedSoft(route, id, passed) ==
    \E k \in DOMAIN route.constraint_results :
        /\ route.constraint_results[k].constraint_id = id
        /\ route.constraint_results[k].is_hard = FALSE
        /\ route.constraint_results[k].passed = passed

\* C18: a failing soft constraint never removes a route: when the request sets
\* max_cost_usd, max_carbon_kg or min_labor_score, a route that passes all hard
\* constraints is kept by the admissibility filter whatever the cost, carbon or
\* labor verdict, and that verdict is recorded on the returned route with
\* is_hard = false.
C18_SoftFailureKeepsRoute ==
    JustReturned =>
        LET cand == Candidates
        IN  /\ \A i \in DOMAIN cand.evaluated :
                   PassesHardChecks(cand.evaluated[i]) =>
                       \E k \in DOMAIN cand.admissible :
                           cand.admissible[k].route_id = cand.evaluated[i].route_id
            /\ \A i \in DOMAIN result.routes :
                   LET route == result.routes[i]
                   IN  /\ request.max_cost_usd # None =>
                              RecordedSoft(route, "cost-budget",
                                           route.total_cost_usd <= request.max_cost_usd[1])
                       /\ request.max_carbon_kg # None =>
                              RecordedSoft(route, "carbon-budget",
                                           route.total_carbon_kg <= request.max_carbon_kg[1])
                       /\ request.min_labor_score # None =>
                              RecordedSoft(route, "labor-minimum",
                                           route.labor_score >= request.min_labor_score[1])

\* a returned route is over the request's cost budget: its cost result is
\* recorded as failed and soft
C18_Witness ==
    /\ Returned
    /\ request.max_cost_usd # None
    /\ \E i \in DOMAIN result.routes :
           /\ result.routes[i].total_cost_usd > request.max_cost_usd[1]
           /\ RecordedSoft(result.routes[i], "cost-budget", FALSE)

\* the chains of at most n edges of the graph, as sequences of edge positions
EdgeChains(n) ==
    UNION {[1..len -> DOMAIN graph.edges] : len \in 1..n}

\* the chain leads from one node handle to another
Connects(chain, from, to) ==
    /\ graph.edges[chain[1]].source = from
    /\ graph.edges[chain[Len(chain)]].target = to
    /\ \A i \in 1..(Len(chain) - 1) :
           graph.edges[chain[i]].target = graph.edges[chain[i + 1]].source

\* the transit time of a chain: the transit_hours of its edges
ChainTransit(chain) ==
    SumSeq([i \in 1..Len(chain) |-> graph.edges[chain[i]].weight.transit_hours])

\* every origin-to-destination path takes longer in transit than the window
\* deliver_by - pickup_after (a path that repeats a node is no shorter than the
\* one without the repetition, so chains of at most node_count edges decide)
WindowBelowEveryTransit ==
    LET origin == get_node_index(graph, request.origin_code)
        destination == get_node_index(graph, request.destination_code)
    IN  \A chain \in EdgeChains(node_count(graph)) :
            Connects(chain, origin, destination) =>
                ChainTransit(chain) > request.deliver_by - request.pickup_after

\* every returned route arrives by the deadline
ArrivesByDeadline ==
    \A i \in DOMAIN result.routes :
        LET segments == result.routes[i].segments
        IN  segments[Len(segments)].arrival_time <= request.deliver_by

\* C19: every route returned by optimize meets the delivery deadline: the
\* arrival_time of its last segment is no later than request.deliver_by; and
\* when every origin-to-destination path has a transit time larger than the
\* window deliver_by - pickup_after, the search emits nothing, so the result is
\* empty with candidates_evaluated = 0.
C19_DeadlineMet ==
    Returned =>
        /\ ArrivesByDeadline
        /\ (~UnknownEndpoint /\ WindowBelowEveryTransit) =>
               /\ result.routes = <<>>
               /\ result.candidates_evaluated = 0

\* the search optimize runs for the request, from its first state to the end of
\* the loop; the endpoints are known
RequestSearch ==
    SearchRun(graph, get_node_index(graph, request.origin_code),
              get_node_index(graph, request.destination_code), request,
              request.max_routes * 3)

\* C20: on every graph (cycles and zero-cost edges included) and every request,
\* find_k_shortest_paths terminates (the loop ends, after no more iterations
\* than one per state pushed: the first state and one per edge left at each
\* expansion), emits at most K = 3 * max_routes paths, every emitted path has at
\* most max_segments edges, and no node is expanded more than K times; with
\* max_routes = 0 or max_segments = 0 it emits no path.
C20_SearchBounded ==
    (JustReturned /\ ~UnknownEndpoint) =>
        LET run == RequestSearch
            k == 3 * request.max_routes
        IN  /\ run.pops <= 1 + k * edge_count(graph)
            /\ Len(run.paths) <= k
            /\ \A i \in DOMAIN run.paths : Len(run.paths[i]) <= request.max_segments
            /\ \A n \in DOMAIN run.expansions : run.expansions[n] <= k
            /\ (request.max_routes = 0 \/ request.max_segments = 0) => run.paths = <<>>

\* the search ran on a graph with a cycle through a zero-cost edge, expanded a
\* node more than once, left a state unexpanded at the depth limit, and emitted
\* a path of max_segments edges
C20_Witness ==
    /\ Returned
    /\ ~UnknownEndpoint
    /\ \E e, f \in DOMAIN graph.edges :
           /\ graph.edges[e].source = graph.edges[f].target
           /\ graph.edges[e].target = graph.edges[f].source
           /\ calculate_cost(graph.edges[f].weight, request.weight_kg) = 0
    /\ \E n \in DOMAIN RequestSearch.expansions : RequestSearch.expansions[n] > 1
    /\ \E i \in DOMAIN RequestSearch.paths :
           Len(RequestSearch.paths[i]) = request.max_segments

\* the minimum wage looked up for a segment: the entry of min_wages under the
\* segment's lookup key (its to_node), 800 when there is none
LookedUpMinWage(c, segment) ==
    IF \E i \in DOMAIN c.min_wages : c.min_wages[i][1] = segment.to_node
    THEN c.min_wages[CHOOSE i \in DOMAIN c.min_wages :
                         c.min_wages[i][1] = segment.to_node][2]
    ELSE 800

C22_ConnectedChain ==
    Returned =>
        \A r \in DOMAIN result.routes :
            LET segments == result.routes[r].segments
            IN  /\ segments # <<>>
                /\ segments[1].from_node = request.origin_code
                /\ \A i \in 2..Len(segments) :
                       segments[i].from_node = segments[i - 1].to_node
                /\ segments[Len(segments)].to_node = request.destination_code
                /\ \A i \in DOMAIN segments : segments[i].sequence = i - 1

\* the request as it is parsed when the proto request names all four modes
RequestWithAllModes ==
    parse_optimize_request(
        [proto_request EXCEPT !.allowed_modes = {"MARITIME", "RAIL", "ROAD", "AIR"}], 0)

\* C23: an empty allowed_modes set imposes no mode restriction: for every graph
\* and request, optimize with allowed_modes = {} returns the same routes as the
\* same request with allowed_modes = {Maritime, Rail, Road, Air}.
C23_EmptyModesMeansAll ==
    (JustReturned /\ request.allowed_modes = {}) =>
        /\ RequestWithAllModes.allowed_modes = TransportMode
        /\ LET cand == OptimizeCandidates(graph, cache, RequestWithAllModes, 1)
           IN  \A order \in HashOrders(Len(cand.admissible)) :
                   OptimizeRanked(cand, RequestWithAllModes, order) = result

\* optimize returned routes of two different modes for a request with an empty
\* allowed_modes
C23_Witness ==
    /\ Returned
    /\ request.allowed_modes = {}
    /\ \E i, j \in DOMAIN result.routes :
           result.routes[i].segments[1].mode # result.routes[j].segments[1].mode

\* C24: calculate_pareto_ranks sorts the admissible set by non-domination: a
\* route gets pareto_rank 1 if and only if no other admissible route dominates
\* it (two mutually non-dominating routes both get rank 1), and every route of
\* rank r > 1 is dominated by at least one route of rank r - 1; this for every
\* iteration order of the set `remaining`.
C24_NonDominatedSorting ==
    JustReturned =>
        LET cand == Candidates
        IN  \A order \in HashOrders(Len(cand.admissible)) :
                LET ranked == calculate_pareto_ranks(cand.admissible, order)
                IN  \A i \in DOMAIN ranked :
                        /\ ranked[i].pareto_rank >= 1
                        /\ ranked[i].pareto_rank = 1 <=>
                               ~\E j \in DOMAIN ranked :
                                    j # i /\ Dominates(ranked[j], ranked[i])
                        /\ ranked[i].pareto_rank > 1 =>
                               \E j \in DOMAIN ranked :
                                   /\ ranked[j].pareto_rank = ranked[i].pareto_rank - 1
                                   /\ Dominates(ranked[j], ranked[i])

\* the admissible routes of the request were ranked, one at rank 1 and one it
\* dominates at rank 2
C24_Witness ==
    /\ Returned
    /\ \E i, j \in DOMAIN AllScored :
           /\ AllScored[i].pareto_rank = 1
           /\ AllScored[j].pareto_rank = 2
           /\ Dominates(AllScored[i], AllScored[j])

\* the sequences of at most n edges of the graph, as positions in graph.edges
RECURSIVE EdgeSeqs(_, _)
EdgeSeqs(g, n) ==
    IF n = 0 THEN {<<>>}
    ELSE LET shorter == EdgeSeqs(g, n - 1)
         IN  shorter \cup {Append(seq, e) : seq \in shorter, e \in DOMAIN g.edges}

\* the search state the neighbour loop builds along a sequence of edges
RECURSIVE StateAlong(_, _, _, _)
StateAlong(g, req, origin, seq) ==
    IF seq = <<>>
    THEN [node |-> origin, path |-> <<>>, cost |-> 0, time_hours |-> 0,
          carbon_kg |-> 0, current_time |-> req.pickup_after]
    ELSE ChildState(StateAlong(g, req, origin, SubSeq(seq, 1, Len(seq) - 1)),
                    g.edges[seq[Len(seq)]], req)

\* the sequence is a path from origin to destination of at least one edge, every
\* edge passes the pruning predicates and every state passes the time gate
ViablePath(g, req, origin, destination, seq) ==
    /\ seq # <<>>
    /\ g.edges[seq[1]].source = origin
    /\ g.edges[seq[Len(seq)]].target = destination
    /\ \A i \in 2..Len(seq) : g.edges[seq[i]].source = g.edges[seq[i - 1]].target
    /\ \A i \in 1..Len(seq) :
           /\ ~EdgePruned(g.edges[seq[i]].weight, req)
           /\ StateAlong(g, req, origin, SubSeq(seq, 1, i)).current_time <= req.deliver_by

ViablePaths(g, req) ==
    LET origin == get_node_index(g, req.origin_code)
        destination == get_node_index(g, req.destination_code)
    IN  IF origin = 0 \/ destination = 0 THEN {}
        ELSE {seq \in EdgeSeqs(g, req.max_segments) :
                 ViablePath(g, req, origin, destination, seq)}

\* C26: search completeness. Whenever the graph holds an origin-to-destination
\* path of at most max_segments edges whose edges all pass the pruning
\* predicates and whose states all pass the time gate, find_k_shortest_paths
\* with K = 3 * max_routes >= 3 emits at least one path.
C26_SearchComplete ==
    (JustReturned /\ request.max_routes * 3 >= 3 /\ ViablePaths(graph, request) # {})
        => SearchPaths(graph, request).paths # <<>>

\* the same with the visit counter out of the way: a viable path exists, and
\* no node was popped more often than K times, so a path was emitted
C26_CompleteBelowVisitCap ==
    (/\ JustReturned
     /\ request.max_routes * 3 >= 3
     /\ ViablePaths(graph, request) # {}
     /\ LET search == SearchRun(graph, get_node_index(graph, request.origin_code),
                                get_node_index(graph, request.destination_code),
                                request, request.max_routes * 3)
        IN  \A n \in DOMAIN search.visited_counts :
                search.visited_counts[n] <= request.max_routes * 3)
        => SearchPaths(graph, request).paths # <<>>

\* the arrival_time of the last segment path_to_route builds for a path
MaterializedArrival(path) ==
    LET segments == path_to_route(graph, path, request, <<1, 1>>).segments
    IN  segments[Len(segments)].arrival_time

NodesFound ==
    get_node_index(graph, request.origin_code) # 0
        /\ get_node_index(graph, request.destination_code) # 0

\* C28: the search and the materialization agree on time. For every path
\* emitted by find_k_shortest_paths, the current_time of the search state that
\* emitted it equals the arrival_time of the last segment path_to_route builds
\* for that path, whatever its length and its mix of modes.
C28_SearchAndRouteAgreeOnArrival ==
    (JustReturned /\ NodesFound) =>
        LET search == RequestSearch
        IN  \A i \in DOMAIN search.emitted :
                search.emitted[i].current_time = MaterializedArrival(search.emitted[i].path)

\* the same for the emitted paths of a single edge, where no earlier hop and
\* no transfer enters the sum
C28_SingleEdgeAgreeOnArrival ==
    (JustReturned /\ NodesFound) =>
        LET search == RequestSearch
        IN  \A i \in DOMAIN search.emitted :
                Len(search.emitted[i].path) = 1 =>
                    search.emitted[i].current_time = MaterializedArrival(search.emitted[i].path)

\* all four objective weights of the request are strictly positive
PositiveWeights ==
    /\ request.cost_weight > 0
    /\ request.time_weight > 0
    /\ request.carbon_weight > 0
    /\ request.labor_weight > 0

\* the position of the route of the given id in the list
PositionIn(routes, id) == CHOOSE i \in DOMAIN routes : routes[i].route_id = id

\* C29: when all four objective weights are strictly positive, a dominated
\* route never outranks its dominator: of two admissible routes A and B with A
\* dominating B, A's weighted_score is lower, A comes before B in the sorted
\* list, and B is not returned while A is truncated away.
C29_DominatorScoresLower ==
    (JustReturned /\ PositiveWeights) =>
        LET all == AllScored
            sorted == SortByScore(all)
            returned_ids == {result.routes[i].route_id : i \in DOMAIN result.routes}
        IN  \A i, j \in DOMAIN all :
                Dominates(all[i], all[j]) =>
                    /\ ScoreLess(all[i].weighted_score, all[j].weighted_score)
                    /\ PositionIn(sorted, all[i].route_id) < PositionIn(sorted, all[j].route_id)
                    /\ all[j].route_id \in returned_ids => all[i].route_id \in returned_ids

\* the same where some admissible route costs more than nothing, so that the
\* cost is normalized by a positive maximum
C29_DominatorScoresLowerAtPositiveCost ==
    (/\ JustReturned
     /\ PositiveWeights
     /\ \E i \in DOMAIN AllScored : AllScored[i].total_cost_usd > 0) =>
        LET all == AllScored
            returned_ids == {result.routes[i].route_id : i \in DOMAIN result.routes}
        IN  \A i, j \in DOMAIN all :
                Dominates(all[i], all[j]) =>
                    /\ ScoreLess(all[i].weighted_score, all[j].weighted_score)
                    /\ all[j].route_id \in returned_ids => all[i].route_id \in returned_ids

----------------------------------------------------------------------------
(* Properties of the server, checked under SpecServe *)

\* the graphs a load that ran to its end can build, and the graph of AppState's
\* creation
WholeGraphs ==
    {NewGraph(0)}
        \cup {BuildGraph(src.nodes, src.entries, t) : src \in Sources, t \in 1..(MaxLoads + 2)}

\* the positions of optimize_routes between the guard's grant and the response
Optimizing == {"search", "build", "rank"}

\* C3: an OptimizeRoutes call works on one graph from the grant of its read
\* guard to its response: the graph of AppState stays the whole graph the call
\* first saw, and the search, the routes built and the response are those of
\* optimize on that graph
C3_OneGraphPerCall ==
    \A h \in Handlers :
        /\ spc[h] \in Optimizing =>
              /\ hlocal[h].snapshot # None
              /\ appGraph = hlocal[h].snapshot[1]
              /\ appGraph \in WholeGraphs
        /\ spc[h] \in {"build", "rank"} =>
              hlocal[h].search[1] = SearchPaths(hlocal[h].snapshot[1], hlocal[h].request[1])
        /\ spc[h] = "rank" =>
              hlocal[h].candidates[1]
                  = OptimizeCandidates(hlocal[h].snapshot[1], EmptyCache,
                                       hlocal[h].request[1], h)
        /\ resp[h].kind = "optimize" =>
              LET cand == OptimizeCandidates(hlocal[h].snapshot[1], EmptyCache,
                                             hlocal[h].request[1], h)
              IN  \E order \in HashOrders(Len(cand.admissible)) :
                      resp[h] = OptimizeResponse(optimize(hlocal[h].snapshot[1], EmptyCache,
                                                          hlocal[h].request[1], order, h))

\* an OptimizeRoutes call that has found paths and is building its routes while a
\* reload with another graph waits to swap, or has its graph half built
C3_Witness ==
    \E h \in Handlers : \E p \in Procs \ {h} :
        /\ spc[h] = "build"
        /\ hlocal[h].search[1].paths # <<>>
        /\ \/ spc[p] = "swap_await" /\ new_graph[p][1].nodes # appGraph.nodes
           \/ spc[p] = "load_edges" /\ new_graph[p][1].nodes # appGraph.nodes

\* C10: a load that fails, in the reload task or in ReloadGraph, changes nothing
\* of the graph AppState holds, and ReloadGraph answers it with success = FALSE
C10_FailedLoadKeepsGraph ==
    [][\A p \in Procs :
           ((spc[p] = "load_err" \/ spc'[p] = "load_err") /\ spc'[p] # spc[p]) =>
               /\ appGraph' = appGraph
               /\ (spc[p] = "load_err" /\ p \in Handlers) =>
                      (resp'[p].kind = "reload" /\ resp'[p].success = FALSE)]_vars

\* a ReloadGraph answered after its load failed while AppState holds a graph
\* that an earlier load installed
C10_Witness ==
    /\ \E h \in Handlers : resp[h] = ReloadFailed("load error")
    /\ node_count(appGraph) > 0

----------------------------------------------------------------------------
(* Properties of TransportGraph, checked under SpecBuild *)

\* a node with this code has been added to the graph
CodePresent(g, code) == \E i \in DOMAIN g.nodes : g.nodes[i].code = code

\* C15: after any sequence of add_node / add_edge calls, add_edge(from_code,
\* to_code, e) with both codes present returns true, increases edge_count by
\* exactly one and leaves node_count unchanged; with either code absent it
\* returns false and leaves the node set, the edge set and the code index
\* unchanged.
C15_AddEdgeFrame ==
    [][last_call'.op = "add_edge" =>
          IF CodePresent(building, last_call'.from_code)
             /\ CodePresent(building, last_call'.to_code)
          THEN /\ last_call'.returned
               /\ edge_count(building') = edge_count(building) + 1
               /\ node_count(building') = node_count(building)
          ELSE /\ ~last_call'.returned
               /\ building'.nodes = building.nodes
               /\ building'.edges = building.edges
               /\ building'.node_index = building.node_index]_vars

\* add_edge has just returned false for an absent code, on a graph that already
\* holds nodes and an edge added by an earlier call
C15_Witness ==
    /\ last_call.op = "add_edge"
    /\ ~last_call.returned
    /\ ~(CodePresent(building, last_call.from_code) /\ CodePresent(building, last_call.to_code))
    /\ node_count(building) > 0
    /\ edge_count(building) > 0

----------------------------------------------------------------------------
(* Properties of the reloads, checked under SpecServe and SpecServeFair *)

\* the positions at which a handler works under its read view
Reading == {"search", "build", "rank", "status"}

\* the tasks that reload the graph while requests are served
Reloaders == Procs \ {"main"}

\* the task waits for the write guard
WaitsForWrite(p) == \E i \in DOMAIN lock.queue : lock.queue[i] = <<p, "write">>

\* C25: while requests are served, OptimizeRoutes / GetGraphStatus calls hold
\* their read views side by side, no read view is held while a reload holds
\* write access, and every reload path (the background task and ReloadGraph)
\* has fetched and built its new graph completely before it asks for write
\* access, which it holds for the swap only.
C25_ReadersSideBySideReloadBuildsFirst ==
    spc["main"] = "serving" =>
        /\ \A h \in Handlers : spc[h] \in Reading <=> h \in lock.readers
        /\ lock.writer # NoProc => lock.readers = {}
        /\ \A p \in Reloaders :
               (lock.writer = p \/ WaitsForWrite(p)) =>
                   /\ spc[p] \in {"swap_await", "swap"}
                   /\ new_graph[p] # None
                   /\ new_graph[p][1] \in WholeGraphs
        /\ \A p \in Reloaders : lock.writer = p <=> spc[p] = "swap"

\* two calls hold read views at the same time while a reload that has built its
\* graph waits for write access
C25_Witness ==
    /\ spc["main"] = "serving"
    /\ Cardinality(lock.readers) = 2
    /\ WaitsForWrite("reload_task")
    /\ new_graph["reload_task"] # None

\* a step that assigns the shared graph: the swap of a reload
Swapping == appGraph' # appGraph

\* C27: under any interleaving of the background reload task and on-demand
\* ReloadGraph calls, the graph readers see never goes back in time: every swap
\* installs a graph whose loaded_at is no earlier than the loaded_at of the
\* graph it replaces.
C27_LoadedAtNeverGoesBack ==
    [][(spc["main"] = "serving" /\ Swapping) => appGraph'.loaded_at >= appGraph.loaded_at]_vars

\* C30: reload is not starved by readers. Under a fair lock, and with every
\* OptimizeRoutes / GetGraphStatus call dropping its read view after finitely
\* many steps, every reload whose load answered Ok eventually holds the write
\* guard and installs its graph, and every OptimizeRoutes call that waits for a
\* read view eventually gets one.
C30_ReloadAndReadersGetTheirGuard ==
    /\ \A p \in Reloaders : (spc[p] = "load_ok") ~> (lock.writer = p)
    /\ \A p \in Reloaders : (spc[p] = "load_ok") ~> (new_graph[p] = None)
    /\ \A h \in Handlers : (spc[h] = "optimize_await") ~> (spc[h] = "search" /\ h \in lock.readers)

\* a reload that has loaded waits for the write guard behind a call that holds
\* a read view, and an OptimizeRoutes call waits behind the reload
C30_Witness ==
    /\ \E p \in Reloaders : WaitsForWrite(p) /\ spc[p] = "swap_await"
    /\ lock.readers # {}
    /\ \E h \in Handlers : spc[h] = "optimize_await"

============================================================================
